---------------------------- MODULE Spec2Model ----------------------------
(***************************************************************************)
(* A model of pyMEGAcmd: MEGAcmdWrapper (src/lib/pyMEGAcmd.py) and its     *)
(* helpers (src/lib/helper.py).  The wrapper runs the external MEGAcmd     *)
(* binary once per call and decodes its exit code and text.                *)
(*                                                                         *)
(* Text is modelled as a sequence of one-character strings, so that        *)
(* str.strip, str.splitlines, slicing and the regular expressions of the   *)
(* wrapper are computed character by character, as Python computes them.   *)
(***************************************************************************)
EXTENDS Integers, Sequences, FiniteSets, TLC

(***************************************************************************)
(* Characters and Python's str methods.                                    *)
(***************************************************************************)
NL == "\n"

\* str.strip() with no argument and the regex class \s: white space.
Whitespace == {" ", "\t", NL}

Digits == {"0", "1", "2", "3", "4", "5", "6", "7", "8", "9"}

Letters ==
  {"a", "b", "c", "d", "e", "f", "g", "h", "i", "j", "k", "l", "m", "n", "o",
   "p", "q", "r", "s", "t", "u", "v", "w", "x", "y", "z",
   "A", "B", "C", "D", "E", "F", "G", "H", "I", "J", "K", "L", "M", "N", "O",
   "P", "Q", "R", "S", "T", "U", "V", "W", "X", "Y", "Z"}

\* The regex class \w (and so [\w\d]).
WordChars == Letters \cup Digits \cup {"_"}

RECURSIVE LStripSet(_, _)
LStripSet(s, cs) ==
  IF s # <<>> /\ Head(s) \in cs THEN LStripSet(Tail(s), cs) ELSE s

RECURSIVE RStripSet(_, _)
RStripSet(s, cs) ==
  IF s # <<>> /\ s[Len(s)] \in cs THEN RStripSet(SubSeq(s, 1, Len(s) - 1), cs)
  ELSE s

\* str.strip()
Strip(s) == RStripSet(LStripSet(s, Whitespace), Whitespace)

\* The Python slice s[a:b] (0-based, b exclusive, clipped to the string).
Slice(s, a, b) ==
  LET lo == IF a < Len(s) THEN a ELSE Len(s)
      hi == IF b < Len(s) THEN b ELSE Len(s)
  IN  SubSeq(s, lo + 1, hi)

\* s[a:]
SliceFrom(s, a) == Slice(s, a, Len(s))

\* Whether literal l occurs in t at position p (1-based).
HasPrefixAt(t, p, l) ==
  /\ p + Len(l) - 1 <= Len(t)
  /\ \A j \in 1..Len(l) : t[p + j - 1] = l[j]

\* str.startswith / str.endswith
StartsWith(t, l) == HasPrefixAt(t, 1, l)
EndsWith(t, l) == Len(l) <= Len(t) /\ HasPrefixAt(t, Len(t) - Len(l) + 1, l)

\* The Python test `l in t` on strings.
Contains(t, l) == \E p \in 1..(Len(t) + 1) : HasPrefixAt(t, p, l)

Min(S) == CHOOSE m \in S : \A n \in S : m <= n
Max(S) == CHOOSE m \in S : \A n \in S : m >= n

\* str.splitlines(): the line boundary of the modelled alphabet is "\n".  A
\* line starts at the first character and after every line boundary but a
\* final one, and runs up to the next boundary.
LineStarts(t) ==
  IF t = <<>> THEN {}
  ELSE {1} \cup {i + 1 : i \in {j \in 1..(Len(t) - 1) : t[j] = NL}}

LineEnd(t, s) == Min({i \in s..Len(t) : t[i] = NL} \cup {Len(t) + 1})

SplitLines(t) ==
  LET starts == LineStarts(t)
  IN  [k \in 1..Cardinality(starts) |->
         LET s == CHOOSE x \in starts : Cardinality({y \in starts : y < x}) = k - 1
         IN  SubSeq(t, s, LineEnd(t, s) - 1)]

DigitVal(c) == CHOOSE n \in 0..9 : <<"0", "1", "2", "3", "4", "5", "6", "7", "8", "9">>[n + 1] = c

\* int(s) for a string of decimal digits.
RECURSIVE ParseInt(_)
ParseInt(s) ==
  IF s = <<>> THEN 0
  ELSE 10 * ParseInt(SubSeq(s, 1, Len(s) - 1)) + DigitVal(s[Len(s)])

(***************************************************************************)
(* Regular expressions (Python re).  A pattern is a sequence of items: a   *)
(* literal, a class repeated one or more times (greedy X+ or lazy X+?),    *)
(* the start and the end of a capture group, ^ and $.  Matching            *)
(* backtracks over the repeat counts in Python's order, so the groups are  *)
(* those of the first match Python finds.                                  *)
(***************************************************************************)
Lit(s) == [k |-> "lit", s |-> s]
Plus(cls) == [k |-> "rep", c |-> cls, greedy |-> TRUE]
PlusLazy(cls) == [k |-> "rep", c |-> cls, greedy |-> FALSE]
Open(g) == [k |-> "open", g |-> g]
Close(g) == [k |-> "close", g |-> g]
Bol == [k |-> "bol"]
Eol == [k |-> "eol"]

\* Character classes: the characters listed, or all but those.
In(cs) == [neg |-> FALSE, set |-> cs]
NotIn(cs) == [neg |-> TRUE, set |-> cs]
Dot == NotIn({NL})
InClass(ch, cls) == (ch \in cls.set) # cls.neg

NoMatch == [ok |-> FALSE, caps |-> <<>>, end |-> 0]

\* The regexes of the wrapper have at most four groups.
NoCaps == [g \in 1..4 |-> <<0, 0>>]

\* The number of consecutive characters of class cls in t from position p.
RunLen(t, p, cls) ==
  Min({i \in p..Len(t) : ~InClass(t[i], cls)} \cup {Len(t) + 1}) - p

RECURSIVE MatchFrom(_, _, _, _, _)
RECURSIVE TryRep(_, _, _, _, _, _)
MatchFrom(re, i, t, p, caps) ==
  IF i > Len(re) THEN [ok |-> TRUE, caps |-> caps, end |-> p]
  ELSE LET it == re[i] IN
    CASE it.k = "lit" ->
           IF HasPrefixAt(t, p, it.s)
           THEN MatchFrom(re, i + 1, t, p + Len(it.s), caps) ELSE NoMatch
      [] it.k = "rep" ->
           LET n == RunLen(t, p, it.c)
           IN  IF n = 0 THEN NoMatch
               ELSE TryRep(re, i, t, p, caps, n)
      [] it.k = "open" ->
           MatchFrom(re, i + 1, t, p, [caps EXCEPT ![it.g] = <<p, p>>])
      [] it.k = "close" ->
           MatchFrom(re, i + 1, t, p, [caps EXCEPT ![it.g] = <<@[1], p>>])
      [] it.k = "bol" ->
           IF p = 1 THEN MatchFrom(re, i + 1, t, p, caps) ELSE NoMatch
      [] it.k = "eol" ->
           \* $ without re.MULTILINE: the end, or before a final newline
           IF p = Len(t) + 1 \/ (p = Len(t) /\ t[p] = NL)
           THEN MatchFrom(re, i + 1, t, p, caps) ELSE NoMatch

\* Repeat item i taking from 1 to maxn characters: the match of the rest
\* after the first count, in the item's order (greedy: the most, lazy: the
\* fewest), after which the rest matches.
TryRep(re, i, t, p, caps, maxn) ==
  LET rest == [n \in 1..maxn |-> MatchFrom(re, i + 1, t, p + n, caps)]
      good == {n \in 1..maxn : rest[n].ok}
  IN  IF good = {} THEN NoMatch
      ELSE IF re[i].greedy THEN rest[Max(good)] ELSE rest[Min(good)]

\* Pattern.match(t): a match starting at the first character.
ReMatch(re, t) == MatchFrom(re, 1, t, 1, NoCaps)

\* Pattern.search(t): the match at the leftmost start that has one.
ReSearch(re, t) ==
  LET at == [p \in 1..(Len(t) + 1) |-> MatchFrom(re, 1, t, p, NoCaps)]
      good == {p \in 1..(Len(t) + 1) : at[p].ok}
  IN  IF good = {} THEN NoMatch ELSE at[Min(good)]

\* Match.group(g)
Group(t, m, g) == SubSeq(t, m.caps[g][1], m.caps[g][2] - 1)

(***************************************************************************)
(* The patterns of MEGAcmdWrapper, item by item.                           *)
(***************************************************************************)
\* r"Cloud drive:\s+(\d+) in\s+(\d+) file\(s\) and\s+(\d+) folder\(s\)"
RE_DF_CLOUD ==
  << Lit(<<"C", "l", "o", "u", "d", " ", "d", "r", "i", "v", "e", ":">>),
  Plus(In(Whitespace)), Open(1), Plus(In(Digits)), Close(1), Lit(<<" ", "i",
  "n">>), Plus(In(Whitespace)), Open(2), Plus(In(Digits)), Close(2),
  Lit(<<" ", "f", "i", "l", "e", "(", "s", ")", " ", "a", "n", "d">>),
  Plus(In(Whitespace)), Open(3), Plus(In(Digits)), Close(3), Lit(<<" ", "f",
  "o", "l", "d", "e", "r", "(", "s", ")">>) >>

\* r"Inbox:\s+(\d+) in\s+(\d+) file\(s\) and\s+(\d+) folder\(s\)"
RE_DF_INBOX ==
  << Lit(<<"I", "n", "b", "o", "x", ":">>), Plus(In(Whitespace)), Open(1),
  Plus(In(Digits)), Close(1), Lit(<<" ", "i", "n">>), Plus(In(Whitespace)),
  Open(2), Plus(In(Digits)), Close(2), Lit(<<" ", "f", "i", "l", "e", "(",
  "s", ")", " ", "a", "n", "d">>), Plus(In(Whitespace)), Open(3),
  Plus(In(Digits)), Close(3), Lit(<<" ", "f", "o", "l", "d", "e", "r", "(",
  "s", ")">>) >>

\* r"Rubbish bin:\s+(\d+) in\s+(\d+) file\(s\) and\s+(\d+) folder\(s\)"
RE_DF_BIN ==
  << Lit(<<"R", "u", "b", "b", "i", "s", "h", " ", "b", "i", "n", ":">>),
  Plus(In(Whitespace)), Open(1), Plus(In(Digits)), Close(1), Lit(<<" ", "i",
  "n">>), Plus(In(Whitespace)), Open(2), Plus(In(Digits)), Close(2),
  Lit(<<" ", "f", "i", "l", "e", "(", "s", ")", " ", "a", "n", "d">>),
  Plus(In(Whitespace)), Open(3), Plus(In(Digits)), Close(3), Lit(<<" ", "f",
  "o", "l", "d", "e", "r", "(", "s", ")">>) >>

\* r"USED STORAGE:\s+(\d+)\s+([\d\.]+)% of\s+(\d+)"
RE_DF_TOTAL ==
  << Lit(<<"U", "S", "E", "D", " ", "S", "T", "O", "R", "A", "G", "E",
  ":">>), Plus(In(Whitespace)), Open(1), Plus(In(Digits)), Close(1),
  Plus(In(Whitespace)), Open(2), Plus(In(Digits \cup {"."})), Close(2),
  Lit(<<"%", " ", "o", "f">>), Plus(In(Whitespace)), Open(3),
  Plus(In(Digits)), Close(3) >>

\* r"Total size taken up by file versions:\s+(\d+)"
RE_DF_VERSIONS ==
  << Lit(<<"T", "o", "t", "a", "l", " ", "s", "i", "z", "e", " ", "t", "a",
  "k", "e", "n", " ", "u", "p", " ", "b", "y", " ", "f", "i", "l", "e", " ",
  "v", "e", "r", "s", "i", "o", "n", "s", ":">>), Plus(In(Whitespace)),
  Open(1), Plus(In(Digits)), Close(1) >>

\* r"^Total storage used:\s+(\d+)\s+(\d+)$"
RE_DU_TOTAL ==
  << Bol, Lit(<<"T", "o", "t", "a", "l", " ", "s", "t", "o", "r", "a", "g",
  "e", " ", "u", "s", "e", "d", ":">>), Plus(In(Whitespace)), Open(1),
  Plus(In(Digits)), Close(1), Plus(In(Whitespace)), Open(2),
  Plus(In(Digits)), Close(2), Eol >>

\* r"^([^:]+):\s+(\d+)\s+(\d+)$"
RE_DU_ENTRY ==
  << Bol, Open(1), Plus(NotIn({":"})), Close(1), Lit(<<":">>),
  Plus(In(Whitespace)), Open(2), Plus(In(Digits)), Close(2),
  Plus(In(Whitespace)), Open(3), Plus(In(Digits)), Close(3), Eol >>

\* r"^(.+) \(([^,]+), shared as exported permanent file link: ([^\)]+)\)$"
RE_EXPORT__LIST_FILE ==
  << Bol, Open(1), Plus(Dot), Close(1), Lit(<<" ", "(">>), Open(2),
  Plus(NotIn({","})), Close(2), Lit(<<",", " ", "s", "h", "a", "r", "e",
  "d", " ", "a", "s", " ", "e", "x", "p", "o", "r", "t", "e", "d", " ", "p",
  "e", "r", "m", "a", "n", "e", "n", "t", " ", "f", "i", "l", "e", " ", "l",
  "i", "n", "k", ":", " ">>), Open(3), Plus(NotIn({")"})), Close(3),
  Lit(<<")">>), Eol >>

\* r"^(.+) \(folder, shared as exported permanent folder link: ([^\)]+)\)$"
RE_EXPORT__LIST_FOLDER ==
  << Bol, Open(1), Plus(Dot), Close(1), Lit(<<" ", "(", "f", "o", "l", "d",
  "e", "r", ",", " ", "s", "h", "a", "r", "e", "d", " ", "a", "s", " ", "e",
  "x", "p", "o", "r", "t", "e", "d", " ", "p", "e", "r", "m", "a", "n", "e",
  "n", "t", " ", "f", "o", "l", "d", "e", "r", " ", "l", "i", "n", "k", ":",
  " ">>), Open(2), Plus(NotIn({")"})), Close(2), Lit(<<")">>), Eol >>

\* r"^(.+) AuthToken=(.+?)$"
RE_EXPORT__LIST_AUTHTOKEN ==
  << Bol, Open(1), Plus(Dot), Close(1), Lit(<<" ", "A", "u", "t", "h", "T",
  "o", "k", "e", "n", "=">>), Open(2), PlusLazy(Dot), Close(2), Eol >>

\* r"^Exported (.+?): (ht.+?)\n\s+AuthToken = (.+)$"
RE_EXPORT__ADD_FOLDER ==
  << Bol, Lit(<<"E", "x", "p", "o", "r", "t", "e", "d", " ">>), Open(1),
  PlusLazy(Dot), Close(1), Lit(<<":", " ">>), Open(2), Lit(<<"h", "t">>),
  PlusLazy(Dot), Close(2), Lit(<<"\n">>), Plus(In(Whitespace)), Lit(<<"A",
  "u", "t", "h", "T", "o", "k", "e", "n", " ", "=", " ">>), Open(3),
  Plus(Dot), Close(3), Eol >>

\* r"^Exported (.+?): (ht.+?)$"
RE_EXPORT__ADD_FILE ==
  << Bol, Lit(<<"E", "x", "p", "o", "r", "t", "e", "d", " ">>), Open(1),
  PlusLazy(Dot), Close(1), Lit(<<":", " ">>), Open(2), Lit(<<"h", "t">>),
  PlusLazy(Dot), Close(2), Eol >>

\* r"^([^<]+) <([\w\d:]+)> \(([^,\)]+),[^:]+: (.+)\)$"
RE_FIND_FILE_EXPORTED ==
  << Bol, Open(1), Plus(NotIn({"<"})), Close(1), Lit(<<" ", "<">>), Open(2),
  Plus(In(WordChars \cup Digits \cup {":"})), Close(2), Lit(<<">", " ",
  "(">>), Open(3), Plus(NotIn({",", ")"})), Close(3), Lit(<<",">>),
  Plus(NotIn({":"})), Lit(<<":", " ">>), Open(4), Plus(Dot), Close(4),
  Lit(<<")">>), Eol >>

\* r"^([^<]+) <([\w\d:]+)> \(([^\)]+)\)$"
RE_FIND_FILE ==
  << Bol, Open(1), Plus(NotIn({"<"})), Close(1), Lit(<<" ", "<">>), Open(2),
  Plus(In(WordChars \cup Digits \cup {":"})), Close(2), Lit(<<">", " ",
  "(">>), Open(3), Plus(NotIn({")"})), Close(3), Lit(<<")">>), Eol >>

\* r"^([^<]+) <([\w\d:]+)> \(folder, [^:]+: (.+)\)$"
RE_FIND_FOLDER_EXPORTED ==
  << Bol, Open(1), Plus(NotIn({"<"})), Close(1), Lit(<<" ", "<">>), Open(2),
  Plus(In(WordChars \cup Digits \cup {":"})), Close(2), Lit(<<">", " ", "(",
  "f", "o", "l", "d", "e", "r", ",", " ">>), Plus(NotIn({":"})), Lit(<<":",
  " ">>), Open(3), Plus(Dot), Close(3), Lit(<<")">>), Eol >>

\* r"^([^<]+) <([\w\d:]+)> \(folder\)$"
RE_FIND_FOLDER ==
  << Bol, Open(1), Plus(NotIn({"<"})), Close(1), Lit(<<" ", "<">>), Open(2),
  Plus(In(WordChars \cup Digits \cup {":"})), Close(2), Lit(<<">", " ", "(",
  "f", "o", "l", "d", "e", "r", ")">>), Eol >>

\* r"session id: (.+?)$"
RE_LOGOUT_SESSION ==
  << Lit(<<"s", "e", "s", "s", "i", "o", "n", " ", "i", "d", ":", " ">>),
  Open(1), PlusLazy(Dot), Close(1), Eol >>

\* r"^Your \(secret\) session is:\s+(.+)$"
RE_SESSION ==
  << Bol, Lit(<<"Y", "o", "u", "r", " ", "(", "s", "e", "c", "r", "e", "t",
  ")", " ", "s", "e", "s", "s", "i", "o", "n", " ", "i", "s", ":">>),
  Plus(In(Whitespace)), Open(1), Plus(Dot), Close(1), Eol >>

\* r"Account e-mail: (.+?)$"
RE_WHOAMI_EMAIL ==
  << Lit(<<"A", "c", "c", "o", "u", "n", "t", " ", "e", "-", "m", "a", "i",
  "l", ":", " ">>), Open(1), PlusLazy(Dot), Close(1), Eol >>

(***************************************************************************)
(* Python values.  None and the optional fields are tagged records, so     *)
(* that values of different Python types always compare (as unequal).      *)
(***************************************************************************)
None == [t |-> "None"]
Str(s) == [t |-> "str", v |-> s]
Bool(b) == [t |-> "bool", v |-> b]
List(l) == [t |-> "list", v |-> l]
Tuple(l) == [t |-> "tuple", v |-> l]
Obj(cls, fields) == [t |-> cls, v |-> fields]

\* bool(v) for an Optional[str]: None and "" are falsy.
Truthy(v) == v # None /\ v.v # <<>>

\* The outcome of a call: a returned value or a raised exception.  msg is
\* the fixed head of the exception's message.
Returned(v) == [kind |-> "return", exc |-> "", msg |-> "", val |-> v]
Raised(e, m) == [kind |-> "raise", exc |-> e, msg |-> m, val |-> None]

\* What a cmd_* method does before it runs the binary: the argument list it
\* hands to _run_mega_cmd, or the exception it raises without running it.
Command(argv) == [early |-> FALSE, command |-> argv, outcome |-> Returned(None)]
Early(e, m) == [early |-> TRUE, command |-> <<>>, outcome |-> Raised(e, m)]

\* float(s): a decimal numeral with at most one point and at least one
\* digit; anything else raises ValueError.  The value m / 10^e is kept in
\* lowest terms of ten, so that 50.0 and 50 are the same float.
RECURSIVE NormFloat(_, _)
NormFloat(m, e) ==
  IF e > 0 /\ m % 10 = 0 THEN NormFloat(m \div 10, e - 1) ELSE [m |-> m, e |-> e]

Float(m, e) == NormFloat(m, e)

CountOf(s, c) == Cardinality({i \in 1..Len(s) : s[i] = c})

IsFloat(s) == CountOf(s, ".") <= 1 /\ \E i \in 1..Len(s) : s[i] \in Digits

ParseFloat(s) ==
  LET dot == IF CountOf(s, ".") = 0 THEN Len(s) + 1
             ELSE CHOOSE i \in 1..Len(s) : s[i] = "."
      ds == SubSeq(s, 1, dot - 1) \o SubSeq(s, dot + 1, Len(s))
  IN  Float(ParseInt(ds), Len(s) + 1 - dot - (IF dot <= Len(s) THEN 1 ELSE 0))

(***************************************************************************)
(* src/lib/helper.py                                                       *)
(***************************************************************************)
SLASH == <<"/">>

clean_remote_path(remote_path, ensure_trailing_slash) ==
  LET p0 == LStripSet(remote_path, {" ", NL})
      p1 == IF StartsWith(p0, <<".", "/">>) THEN SliceFrom(p0, 2) ELSE p0
  IN  IF ensure_trailing_slash /\ ~EndsWith(p1, SLASH) THEN p1 \o SLASH ELSE p1

clean_local_path(local_path, ensure_trailing_slash) ==
  LET p0 == LStripSet(local_path, {" ", NL})
      p1 == RStripSet(p0, {"/"})
  IN  IF ensure_trailing_slash /\ ~EndsWith(p1, SLASH) THEN p1 \o SLASH ELSE p1

\* [f(path) for path in paths]
CleanRemoteAll(paths) == [i \in 1..Len(paths) |-> clean_remote_path(paths[i], FALSE)]
CleanLocalAll(paths) == [i \in 1..Len(paths) |-> clean_local_path(paths[i], FALSE)]

\* CMDResult
CMDResult(stdout, stderr, return_code) ==
  [stdout |-> stdout, stderr |-> stderr, return_code |-> return_code]

(***************************************************************************)
(* MEGAcmdWrapper, src/lib/pyMEGAcmd.py.  Each cmd_X method is two         *)
(* operators: cmd_X_command(a), what it does up to the call of             *)
(* _run_mega_cmd (the argument list, or an exception raised before any     *)
(* process is run), and cmd_X(a, res), the outcome it decodes from the     *)
(* CMDResult res.  a is the record of the call's arguments.                *)
(***************************************************************************)

\* cmd_cat(remote_paths); a.is_str: a str was passed instead of an iterable
cmd_cat_command(a) ==
  IF a.is_str THEN Early("AssertionError", "remote_paths must be an iterable")
  ELSE Command(<<<<"c", "a", "t">>>> \o CleanRemoteAll(a.remote_paths))

\* cmd_cat without its branch for exit code 51.
cmd_cat_no_51(a, res) ==
  IF res.return_code = 0 THEN Returned(Str(Strip(res.stdout)))
  ELSE IF res.return_code = 53 THEN Raised("RuntimeError", "Remote path not found")
  ELSE Raised("RuntimeError", "Unknown error in cat command")

cmd_cat(a, res) ==
  IF res.return_code = 0 THEN Returned(Str(Strip(res.stdout)))
  ELSE IF res.return_code = 53 THEN Raised("RuntimeError", "Remote path not found")
  ELSE IF res.return_code = 51 THEN Raised("RuntimeError", "Remote path is not a file")
  ELSE Raised("RuntimeError", "Unknown error in cat command")

\* cmd_cd(remote_path)
cmd_cd_command(a) ==
  Command(<<<<"c", "d">>>> \o
          (IF a.remote_path = None THEN <<>>
           ELSE <<clean_remote_path(a.remote_path.v, FALSE)>>))

\* cmd_cd answering False for every failed cd.
cmd_cd_false_on_failure(a, res) == Returned(Bool(res.return_code = 0))

cmd_cd(a, res) ==
  IF res.return_code = 0 THEN Returned(Bool(TRUE))
  ELSE IF res.return_code = 53 THEN Returned(Bool(FALSE))
  ELSE Raised("RuntimeError", "Failed to change directory")

\* cmd_df(): the counters before the first line is read
DfInit ==
  [cloud_drive_used |-> 0, cloud_drive_files |-> 0, cloud_drive_folders |-> 0,
   inbox_used |-> 0, inbox_files |-> 0, inbox_folders |-> 0,
   rubbish_bin_used |-> 0, rubbish_bin_files |-> 0, rubbish_bin_folders |-> 0,
   total_used_storage |-> 0, used_storage_percentage |-> Float(0, 0),
   total_storage |-> 0, size_file_versions |-> 0]

\* One pass of cmd_df's loop body over `line`: every pattern is tried, and
\* every one that matches assigns its own counters.
DfCloud(r, line) ==
  LET m == ReMatch(RE_DF_CLOUD, line)
  IN  IF m.ok
      THEN [r EXCEPT !.cloud_drive_used = ParseInt(Group(line, m, 1)),
                     !.cloud_drive_files = ParseInt(Group(line, m, 2)),
                     !.cloud_drive_folders = ParseInt(Group(line, m, 3))]
      ELSE r

\* The inbox branch of cmd_df assigning the cloud drive counters.
DfInbox_into_cloud(r, line) ==
  LET m == ReMatch(RE_DF_INBOX, line)
  IN  IF m.ok
      THEN [r EXCEPT !.cloud_drive_used = ParseInt(Group(line, m, 1)),
                     !.cloud_drive_files = ParseInt(Group(line, m, 2)),
                     !.cloud_drive_folders = ParseInt(Group(line, m, 3))]
      ELSE r

DfInbox(r, line) ==
  LET m == ReMatch(RE_DF_INBOX, line)
  IN  IF m.ok
      THEN [r EXCEPT !.inbox_used = ParseInt(Group(line, m, 1)),
                     !.inbox_files = ParseInt(Group(line, m, 2)),
                     !.inbox_folders = ParseInt(Group(line, m, 3))]
      ELSE r

DfBin(r, line) ==
  LET m == ReMatch(RE_DF_BIN, line)
  IN  IF m.ok
      THEN [r EXCEPT !.rubbish_bin_used = ParseInt(Group(line, m, 1)),
                     !.rubbish_bin_files = ParseInt(Group(line, m, 2)),
                     !.rubbish_bin_folders = ParseInt(Group(line, m, 3))]
      ELSE r

\* float(match_total.group(2)) raises ValueError on a numeral such as 1.2.3
DfTotalRaises(line) ==
  LET m == ReMatch(RE_DF_TOTAL, line)
  IN  m.ok /\ ~IsFloat(Group(line, m, 2))

DfTotal(r, line) ==
  LET m == ReMatch(RE_DF_TOTAL, line)
  IN  IF m.ok
      THEN [r EXCEPT !.total_used_storage = ParseInt(Group(line, m, 1)),
                     !.used_storage_percentage = ParseFloat(Group(line, m, 2)),
                     !.total_storage = ParseInt(Group(line, m, 3))]
      ELSE r

DfVersions(r, line) ==
  LET m == ReMatch(RE_DF_VERSIONS, line)
  IN  IF m.ok
      THEN [r EXCEPT !.size_file_versions = ParseInt(Group(line, m, 1))]
      ELSE r

DfLine(r, line) ==
  DfVersions(DfTotal(DfBin(DfInbox(DfCloud(r, line), line), line), line), line)

\* The loop of cmd_df from line i on: the counters after the last line, or
\* the ValueError of the first total line whose percentage is no float.
\* line begins with one of cmd_df's five shapes.
DfKnown(line) ==
  \/ ReMatch(RE_DF_CLOUD, line).ok
  \/ ReMatch(RE_DF_INBOX, line).ok
  \/ ReMatch(RE_DF_BIN, line).ok
  \/ ReMatch(RE_DF_TOTAL, line).ok
  \/ ReMatch(RE_DF_VERSIONS, line).ok

RECURSIVE DfLoop(_, _, _)
DfLoop(lines, i, r) ==
  IF i > Len(lines) THEN Returned(Obj("MEGADiskFreeResult", r))
  ELSE IF DfTotalRaises(lines[i])
       THEN Raised("ValueError", "could not convert string to float")
       ELSE DfLoop(lines, i + 1, DfLine(r, lines[i]))

cmd_df_command(a) == Command(<<<<"d", "f">>>>)

cmd_df(a, res) ==
  IF res.return_code = 0
  THEN DfLoop(SplitLines(Strip(res.stdout)), 1, DfInit)
  ELSE Raised("RuntimeError", "Failed to get storage usage")

\* cmd_du(remote_paths)
cmd_du_command(a) ==
  IF a.is_str THEN Early("AssertionError", "remote_paths must be an iterable")
  ELSE Command(<<<<"d", "u">>, <<"-", "-", "v", "e", "r", "s", "i", "o", "n", "s">>>> \o CleanRemoteAll(a.remote_paths))

MEGADuEntry(remote_path, size, size_with_versions) ==
  Obj("MEGADuEntry", [remote_path |-> remote_path, size |-> size,
                      size_with_versions |-> size_with_versions])

\* cmd_du's loop body with the entry pattern tried before the total pattern.
DuLine_entry_first(r, line) ==
  LET sline == Strip(line)
      match_total == ReMatch(RE_DU_TOTAL, sline)
      match_entry == ReMatch(RE_DU_ENTRY, sline)
  IN  IF match_entry.ok
      THEN [r EXCEPT !.entries =
              Append(@, MEGADuEntry(Group(sline, match_entry, 1),
                                    ParseInt(Group(sline, match_entry, 2)),
                                    ParseInt(Group(sline, match_entry, 3))))]
      ELSE IF match_total.ok
      THEN [r EXCEPT !.size_total = ParseInt(Group(sline, match_total, 1)),
                     !.size_total_with_versions =
                         ParseInt(Group(sline, match_total, 2))]
      ELSE r

\* One pass of cmd_du's loop body: the total pattern first, else the entry
\* pattern, else nothing.
DuLine(r, line) ==
  LET sline == Strip(line)
      match_total == ReMatch(RE_DU_TOTAL, sline)
      match_entry == ReMatch(RE_DU_ENTRY, sline)
  IN  IF match_total.ok
      THEN [r EXCEPT !.size_total = ParseInt(Group(sline, match_total, 1)),
                     !.size_total_with_versions =
                         ParseInt(Group(sline, match_total, 2))]
      ELSE IF match_entry.ok
      THEN [r EXCEPT !.entries =
              Append(@, MEGADuEntry(Group(sline, match_entry, 1),
                                    ParseInt(Group(sline, match_entry, 2)),
                                    ParseInt(Group(sline, match_entry, 3))))]
      ELSE r

RECURSIVE DuLoop(_, _, _)
DuLoop(lines, i, r) ==
  IF i > Len(lines) THEN r ELSE DuLoop(lines, i + 1, DuLine(r, lines[i]))

\* line, trimmed, has one of cmd_du's two shapes.
DuKnown(line) ==
  \/ ReMatch(RE_DU_TOTAL, Strip(line)).ok
  \/ ReMatch(RE_DU_ENTRY, Strip(line)).ok

\* cmd_du with an else branch that raises on a line of neither shape.
cmd_du_strict(a, res) ==
  IF res.return_code # 0 THEN Raised("RuntimeError", "Failed to get disk usage")
  ELSE LET lines == SplitLines(Strip(res.stdout))
       IN  IF \E i \in 1..Len(lines) : ~DuKnown(lines[i])
           THEN Raised("RuntimeError", "Unexpected du line format")
           ELSE Returned(Obj("MEGADuResult",
                  DuLoop(lines, 1, [entries |-> <<>>, size_total |-> 0,
                                    size_total_with_versions |-> 0])))

cmd_du(a, res) ==
  IF res.return_code # 0 THEN Raised("RuntimeError", "Failed to get disk usage")
  ELSE Returned(Obj("MEGADuResult",
         DuLoop(SplitLines(Strip(res.stdout)), 1,
                [entries |-> <<>>, size_total |-> 0,
                 size_total_with_versions |-> 0])))

MEGAExportEntry(remote_path, link, size, is_folder, auth_token) ==
  Obj("MEGAExportEntry", [remote_path |-> remote_path, link |-> link,
                          size |-> size, is_folder |-> is_folder,
                          auth_token |-> auth_token])

MEGADirectoryEntry(name, handle, is_directory, flags, date, size, link) ==
  Obj("MEGADirectoryEntry", [name |-> name, handle |-> handle,
                             is_directory |-> is_directory, flags |-> flags,
                             date |-> date, size |-> size, link |-> link])

\* cmd_export__add(remote_path, writeable, password)
cmd_export__add_command(a) ==
  Command(<<<<"e", "x", "p", "o", "r", "t">>, <<"-", "f">>, <<"-", "a">>, clean_remote_path(a.remote_path, FALSE)>>
          \o (IF ~a.writeable THEN <<>> ELSE <<<<"-", "-", "w", "r", "i", "t", "a", "b", "l", "e">>>>)
          \o (IF a.password = None THEN <<>>
              ELSE <<<<"-", "-", "p", "a", "s", "s", "w", "o", "r", "d", "=">> \o a.password.v>>))

\* cmd_export__add with a raise where it logs "Unexpected export add output".
cmd_export__add_strict(a, res) ==
  IF res.return_code # 0 THEN Returned(None)
  ELSE LET match1 == ReSearch(RE_EXPORT__ADD_FOLDER, res.stdout)
           match2 == ReSearch(RE_EXPORT__ADD_FILE, res.stdout)
       IN  IF match1.ok
           THEN Returned(MEGAExportEntry(Group(res.stdout, match1, 1),
                                         Group(res.stdout, match1, 2), None, TRUE,
                                         Str(Group(res.stdout, match1, 3))))
           ELSE IF match2.ok
           THEN Returned(MEGAExportEntry(Group(res.stdout, match2, 1),
                                         Group(res.stdout, match2, 2), None, FALSE,
                                         None))
           ELSE Raised("RuntimeError", "Unexpected export add output")

cmd_export__add(a, res) ==
  IF res.return_code # 0 THEN Returned(None)
  ELSE LET match1 == ReSearch(RE_EXPORT__ADD_FOLDER, res.stdout)
           match2 == ReSearch(RE_EXPORT__ADD_FILE, res.stdout)
       IN  IF match1.ok
           THEN Returned(MEGAExportEntry(Group(res.stdout, match1, 1),
                                         Group(res.stdout, match1, 2), None, TRUE,
                                         Str(Group(res.stdout, match1, 3))))
           ELSE IF match2.ok
           THEN Returned(MEGAExportEntry(Group(res.stdout, match2, 1),
                                         Group(res.stdout, match2, 2), None, FALSE,
                                         None))
           ELSE Returned(None)

\* cmd_export__delete(remote_path)
cmd_export__delete_command(a) ==
  Command(<<<<"e", "x", "p", "o", "r", "t">>, <<"-", "d">>, clean_remote_path(a.remote_path, FALSE)>>)

cmd_export__delete(a, res) ==
  IF res.return_code # 0 THEN Returned(Bool(FALSE)) ELSE Returned(Bool(TRUE))

\* cmd_export__list(remote_path)
cmd_export__list_command(a) ==
  Command(<<<<"e", "x", "p", "o", "r", "t">>>> \o
          (IF a.remote_path = None THEN <<>>
           ELSE <<clean_remote_path(a.remote_path.v, FALSE)>>))

\* One pass of cmd_export__list's loop body over a line that matches the
\* file or the folder pattern: the entry appended.
ExportListEntry(line) ==
  LET match_file == ReMatch(RE_EXPORT__LIST_FILE, line)
      match_folder == ReMatch(RE_EXPORT__LIST_FOLDER, line)
      path == IF match_file.ok THEN Group(line, match_file, 1)
              ELSE Group(line, match_folder, 1)
      link0 == IF match_file.ok THEN Group(line, match_file, 3)
               ELSE Group(line, match_folder, 2)
      match_auth == ReMatch(RE_EXPORT__LIST_AUTHTOKEN, link0)
  IN  MEGAExportEntry(
        path,
        IF match_auth.ok THEN Group(link0, match_auth, 1) ELSE link0,
        IF match_file.ok THEN Str(Group(line, match_file, 2)) ELSE None,
        match_folder.ok,
        IF match_auth.ok THEN Str(Group(link0, match_auth, 2)) ELSE None)

ExportListLineMatches(line) ==
  ReMatch(RE_EXPORT__LIST_FILE, line).ok \/ ReMatch(RE_EXPORT__LIST_FOLDER, line).ok

\* The loop of cmd_export__list with `continue` in the place of its raise.
RECURSIVE ExportListLoop_skip(_, _, _)
ExportListLoop_skip(lines, i, entries) ==
  IF i > Len(lines) THEN Returned(List(entries))
  ELSE IF ~ExportListLineMatches(lines[i])
       THEN ExportListLoop_skip(lines, i + 1, entries)
       ELSE ExportListLoop_skip(lines, i + 1,
                                Append(entries, ExportListEntry(lines[i])))

RECURSIVE ExportListLoop(_, _, _)
ExportListLoop(lines, i, entries) ==
  IF i > Len(lines) THEN Returned(List(entries))
  ELSE IF ~ExportListLineMatches(lines[i])
       THEN Raised("RuntimeError", "Unexpected export list line format")
       ELSE ExportListLoop(lines, i + 1, Append(entries, ExportListEntry(lines[i])))

cmd_export__list(a, res) ==
  IF res.return_code # 0 THEN Returned(List(<<>>))
  ELSE ExportListLoop(SplitLines(Strip(res.stdout)), 1, <<>>)

\* cmd_export(action, remote_path, writeable, password)
\* cmd_export handing 'add' on without the password.
cmd_export_command_drops_password(a) ==
  IF a.action = "add"
  THEN IF a.remote_path = None
       THEN Early("AssertionError", "remote_path is required for adding an export")
       ELSE cmd_export__add_command([remote_path |-> a.remote_path.v,
                                     writeable |-> a.writeable,
                                     password |-> None])
  ELSE IF a.action = "delete"
  THEN IF a.remote_path = None
       THEN Early("AssertionError", "remote_path is required for deleting an export")
       ELSE IF a.writeable
       THEN Early("AssertionError", "writeable parameter is not applicable")
       ELSE IF a.password # None
       THEN Early("AssertionError", "password parameter is not applicable")
       ELSE cmd_export__delete_command([remote_path |-> a.remote_path.v])
  ELSE IF a.action = "list"
  THEN IF a.writeable
       THEN Early("AssertionError", "writeable parameter is not applicable")
       ELSE IF a.password # None
       THEN Early("AssertionError", "password parameter is not applicable")
       ELSE cmd_export__list_command([remote_path |-> a.remote_path])
  ELSE Early("ValueError", "Invalid action")

cmd_export_command(a) ==
  IF a.action = "add"
  THEN IF a.remote_path = None
       THEN Early("AssertionError", "remote_path is required for adding an export")
       ELSE cmd_export__add_command([remote_path |-> a.remote_path.v,
                                     writeable |-> a.writeable,
                                     password |-> a.password])
  ELSE IF a.action = "delete"
  THEN IF a.remote_path = None
       THEN Early("AssertionError", "remote_path is required for deleting an export")
       ELSE IF a.writeable
       THEN Early("AssertionError", "writeable parameter is not applicable")
       ELSE IF a.password # None
       THEN Early("AssertionError", "password parameter is not applicable")
       ELSE cmd_export__delete_command([remote_path |-> a.remote_path.v])
  ELSE IF a.action = "list"
  THEN IF a.writeable
       THEN Early("AssertionError", "writeable parameter is not applicable")
       ELSE IF a.password # None
       THEN Early("AssertionError", "password parameter is not applicable")
       ELSE cmd_export__list_command([remote_path |-> a.remote_path])
  ELSE Early("ValueError", "Invalid action")

cmd_export(a, res) ==
  IF a.action = "add"
  THEN cmd_export__add([remote_path |-> a.remote_path.v, writeable |-> a.writeable,
                        password |-> a.password], res)
  ELSE IF a.action = "delete"
  THEN cmd_export__delete([remote_path |-> a.remote_path.v], res)
  ELSE cmd_export__list([remote_path |-> a.remote_path], res)

\* cmd_find(remote_path, pattern, time_constraint, size_constraint)
cmd_find_command(a) ==
  Command(<<<<"f", "i", "n", "d">>, <<"-", "l">>, <<"-", "-", "s", "h", "o", "w", "-", "h", "a", "n", "d", "l", "e", "s">>>>
          \o (IF a.time_constraint = None THEN <<>>
              ELSE <<<<"-", "-", "m", "t", "i", "m", "e", "=">> \o a.time_constraint.v>>)
          \o (IF a.size_constraint = None THEN <<>>
              ELSE <<<<"-", "-", "s", "i", "z", "e", "=">> \o a.size_constraint.v>>)
          \o (IF a.remote_path = None THEN <<>>
              ELSE <<clean_remote_path(a.remote_path.v, FALSE)>>)
          \o (IF a.pattern = None THEN <<>>
              ELSE <<<<"-", "-", "p", "a", "t", "t", "e", "r", "n", "=">> \o a.pattern.v>>))

FindLineMatches(sline) ==
  \/ ReMatch(RE_FIND_FOLDER_EXPORTED, sline).ok
  \/ ReMatch(RE_FIND_FOLDER, sline).ok
  \/ ReMatch(RE_FIND_FILE_EXPORTED, sline).ok
  \/ ReMatch(RE_FIND_FILE, sline).ok

\* cmd_find's chain with the file pattern tried before the exported-file
\* pattern.
FindEntry_file_first(sline) ==
  LET match_folder_e == ReMatch(RE_FIND_FOLDER_EXPORTED, sline)
      match_folder == ReMatch(RE_FIND_FOLDER, sline)
      match_file_e == ReMatch(RE_FIND_FILE_EXPORTED, sline)
      match_file == ReMatch(RE_FIND_FILE, sline)
  IN  IF match_folder_e.ok
      THEN MEGADirectoryEntry(Group(sline, match_folder_e, 1),
                              Group(sline, match_folder_e, 2), TRUE, None, None,
                              None, Str(Group(sline, match_folder_e, 3)))
      ELSE IF match_folder.ok
      THEN MEGADirectoryEntry(Group(sline, match_folder, 1),
                              Group(sline, match_folder, 2), TRUE, None, None,
                              None, None)
      ELSE IF match_file.ok
      THEN MEGADirectoryEntry(Group(sline, match_file, 1),
                              Group(sline, match_file, 2), FALSE, None, None,
                              Str(Group(sline, match_file, 3)), None)
      ELSE MEGADirectoryEntry(Group(sline, match_file_e, 1),
                              Group(sline, match_file_e, 2), FALSE, None, None,
                              Str(Group(sline, match_file_e, 3)),
                              Str(Group(sline, match_file_e, 4)))

\* The entry cmd_find appends for a line that matches one of its patterns,
\* tried in the order of its if/elif chain.
FindEntry(sline) ==
  LET match_folder_e == ReMatch(RE_FIND_FOLDER_EXPORTED, sline)
      match_folder == ReMatch(RE_FIND_FOLDER, sline)
      match_file_e == ReMatch(RE_FIND_FILE_EXPORTED, sline)
      match_file == ReMatch(RE_FIND_FILE, sline)
  IN  IF match_folder_e.ok
      THEN MEGADirectoryEntry(Group(sline, match_folder_e, 1),
                              Group(sline, match_folder_e, 2), TRUE, None, None,
                              None, Str(Group(sline, match_folder_e, 3)))
      ELSE IF match_folder.ok
      THEN MEGADirectoryEntry(Group(sline, match_folder, 1),
                              Group(sline, match_folder, 2), TRUE, None, None,
                              None, None)
      ELSE IF match_file_e.ok
      THEN MEGADirectoryEntry(Group(sline, match_file_e, 1),
                              Group(sline, match_file_e, 2), FALSE, None, None,
                              Str(Group(sline, match_file_e, 3)),
                              Str(Group(sline, match_file_e, 4)))
      ELSE MEGADirectoryEntry(Group(sline, match_file, 1),
                              Group(sline, match_file, 2), FALSE, None, None,
                              Str(Group(sline, match_file, 3)), None)

RECURSIVE FindLoop(_, _, _)
FindLoop(lines, i, entries) ==
  IF i > Len(lines) THEN Returned(List(entries))
  ELSE LET sline == Strip(lines[i])
       IN  IF sline = <<>> THEN FindLoop(lines, i + 1, entries)
           ELSE IF ~FindLineMatches(sline)
           THEN Raised("RuntimeError", "Unexpected find line format")
           ELSE FindLoop(lines, i + 1, Append(entries, FindEntry(sline)))

cmd_find(a, res) ==
  IF res.return_code # 0 THEN Raised("RuntimeError", "Failed to find files/folders")
  ELSE FindLoop(SplitLines(Strip(res.stdout)), 1, <<>>)

\* cmd_get(path_remote, path_local, password, merge)
cmd_get_command(a) ==
  Command(<<<<"g", "e", "t">>>>
          \o (IF ~a.merge THEN <<>> ELSE <<<<"-", "m">>>>)
          \o (IF a.password = None THEN <<>>
              ELSE <<<<"-", "-", "p", "a", "s", "s", "w", "o", "r", "d", "=">> \o a.password.v>>)
          \o <<clean_remote_path(a.path_remote, FALSE)>>
          \o (IF a.path_local = None THEN <<>>
              ELSE <<clean_local_path(a.path_local.v, FALSE)>>))

\* cmd_get without its last elif: a non-zero code other than 53, 54 and 55
\* falls through to `return False`.
cmd_get_falls_through(a, res) ==
  IF res.return_code = 0
  THEN IF Contains(res.stdout, <<"D", "o", "w", "n", "l", "o", "a", "d", " ", "f", "i", "n", "i", "s", "h", "e", "d">>)
       THEN Returned(Bool(TRUE)) ELSE Returned(Bool(FALSE))
  ELSE IF res.return_code = 53 THEN Raised("RuntimeError", "Remote path not found")
  ELSE IF res.return_code = 54 THEN Raised("RuntimeError", "Local path error")
  ELSE IF res.return_code = 55 THEN Raised("RuntimeError", "Invalid download folder")
  ELSE Returned(Bool(FALSE))

cmd_get(a, res) ==
  IF res.return_code = 0
  THEN IF Contains(res.stdout, <<"D", "o", "w", "n", "l", "o", "a", "d", " ", "f", "i", "n", "i", "s", "h", "e", "d">>)
       THEN Returned(Bool(TRUE)) ELSE Returned(Bool(FALSE))
  ELSE IF res.return_code = 53 THEN Raised("RuntimeError", "Remote path not found")
  ELSE IF res.return_code = 54 THEN Raised("RuntimeError", "Local path error")
  ELSE IF res.return_code = 55 THEN Raised("RuntimeError", "Invalid download folder")
  ELSE Raised("RuntimeError", "Failed to get file/folder")

\* cmd_import(exported_link, remote_path, password)
cmd_import_command(a) ==
  Command(<<<<"i", "m", "p", "o", "r", "t">>, a.exported_link>>
          \o (IF a.password = None THEN <<>>
              ELSE <<<<"-", "-", "p", "a", "s", "s", "w", "o", "r", "d", "=">> \o a.password.v>>)
          \o (IF a.remote_path = None THEN <<>>
              ELSE <<clean_remote_path(a.remote_path.v, FALSE)>>))

cmd_import(a, res) ==
  IF res.return_code = 0
       /\ (\/ Contains(res.stdout, <<"I", "m", "p", "o", "r", "t", "e", "d", " ", "f", "o", "l", "d", "e", "r", " ", "c", "o", "m", "p", "l", "e", "t", "e", ":">>)
           \/ Contains(res.stdout, <<"I", "m", "p", "o", "r", "t", "e", "d", " ", "f", "i", "l", "e", " ", "c", "o", "m", "p", "l", "e", "t", "e", ":">>))
  THEN Returned(Bool(TRUE))
  ELSE IF res.return_code = 55
  THEN Raised("RuntimeError", "Invalid remote path (Invalid destiny)")
  ELSE Raised("RuntimeError", "Failed to import link")

\* cmd_login(email, password, auth_code, session)
\* cmd_login without its check for one login method: a session, when given,
\* is used.
cmd_login_command_prefers_session(a) ==
  IF a.session # None THEN Command(<<<<"l", "o", "g", "i", "n">>, a.session.v>>)
  ELSE IF ~(Truthy(a.email) \/ Truthy(a.password) \/ Truthy(a.auth_code))
  THEN Early("ValueError", "Invalid login parameters")
  ELSE IF a.email = None \/ a.password = None
  THEN Early("AssertionError", "Email and password are required")
  ELSE Command(<<<<"l", "o", "g", "i", "n">>, a.email.v, a.password.v>>
               \o (IF Truthy(a.auth_code)
                   THEN <<<<"-", "-", "a", "u", "t", "h", "-", "c", "o", "d", "e", "=">> \o a.auth_code.v>> ELSE <<>>))

cmd_login_command(a) ==
  LET is_user_login == Truthy(a.email) \/ Truthy(a.password) \/ Truthy(a.auth_code)
      is_session_login == a.session # None
  IN  IF is_user_login = is_session_login
      THEN Early("ValueError", "Invalid login parameters")
      ELSE IF is_user_login
      THEN IF a.email = None \/ a.password = None
           THEN Early("AssertionError", "Email and password are required")
           ELSE Command(<<<<"l", "o", "g", "i", "n">>, a.email.v, a.password.v>>
                        \o (IF Truthy(a.auth_code)
                            THEN <<<<"-", "-", "a", "u", "t", "h", "-", "c", "o", "d", "e", "=">> \o a.auth_code.v>> ELSE <<>>))
      ELSE Command(<<<<"l", "o", "g", "i", "n">>, a.session.v>>)

cmd_login(a, res) ==
  IF res.return_code # 0 THEN Returned(Bool(FALSE)) ELSE Returned(Bool(TRUE))

\* cmd_logout(keep_session)
cmd_logout_command(a) ==
  Command(<<<<"l", "o", "g", "o", "u", "t">>>> \o (IF a.keep_session THEN <<<<"-", "-", "k", "e", "e", "p", "-", "s", "e", "s", "s", "i", "o", "n">>>> ELSE <<>>))

\* cmd_logout reading the session whether or not it was asked to keep it.
cmd_logout_any_session(a, res) ==
  IF res.return_code # 0 THEN Returned(Tuple(<<Bool(FALSE), None>>))
  ELSE LET match == ReSearch(RE_LOGOUT_SESSION, res.stdout)
       IN  IF match.ok
           THEN Returned(Tuple(<<Bool(TRUE), Str(Group(res.stdout, match, 1))>>))
           ELSE Returned(Tuple(<<Bool(TRUE), None>>))

cmd_logout(a, res) ==
  IF res.return_code # 0 THEN Returned(Tuple(<<Bool(FALSE), None>>))
  ELSE LET match == ReSearch(RE_LOGOUT_SESSION, res.stdout)
       IN  IF a.keep_session /\ match.ok
           THEN Returned(Tuple(<<Bool(TRUE), Str(Group(res.stdout, match, 1))>>))
           ELSE Returned(Tuple(<<Bool(TRUE), None>>))

\* cmd_lcd(local_path)
cmd_lcd_command(a) == Command(<<<<"l", "c", "d">>, clean_local_path(a.local_path, FALSE)>>)

\* cmd_lcd answering False for every failed lcd.
cmd_lcd_false_on_failure(a, res) == Returned(Bool(res.return_code = 0))

cmd_lcd(a, res) ==
  IF res.return_code = 0 THEN Returned(Bool(TRUE))
  ELSE IF res.return_code = 55 THEN Returned(Bool(FALSE))
  ELSE Raised("RuntimeError", "Failed to change local directory")

\* cmd_lpwd()
cmd_lpwd_command(a) == Command(<<<<"l", "p", "w", "d">>>>)

cmd_lpwd(a, res) == Returned(Str(Strip(res.stdout)))

\* cmd_ls(remote_path)
cmd_ls_command(a) ==
  Command(<<<<"l", "s">>, <<"-", "h", "a", "l">>, <<"-", "-", "s", "h", "o", "w", "-", "h", "a", "n", "d", "l", "e", "s">>, clean_remote_path(a.remote_path, FALSE)>>)

\* The columns cmd_ls cuts a listing line into.
LsFlags(line) == Strip(Slice(line, 0, 4))
LsSize(line) == Strip(Slice(line, 9, 22))
LsDate(line) == Strip(Slice(line, 22, 41))
LsHandle(line) == Strip(Slice(line, 41, 52))
\* The name taken as the last whitespace-separated word of the line.
LsName_last_word(line) ==
  LET s == Strip(line)
      gaps == {i \in 1..Len(s) : s[i] \in Whitespace}
  IN  IF gaps = {} THEN s ELSE SubSeq(s, Max(gaps) + 1, Len(s))

LsName(line) == Strip(SliceFrom(line, 52))

\* The entry cmd_ls appends for a line whose flags column is not blank.
LsEntry(line) ==
  LET flags == LsFlags(line)
      size == LsSize(line)
  IN  MEGADirectoryEntry(LsName(line), LsHandle(line), flags[1] = "d",
                         Str(flags), Str(LsDate(line)),
                         IF size = <<"-">> THEN None ELSE Str(size), None)

\* The loop of cmd_ls: flags[0] of a line with a blank flags column raises
\* IndexError.
RECURSIVE LsLoop(_, _, _)
LsLoop(lines, i, dir_entries) ==
  IF i > Len(lines) THEN Returned(List(dir_entries))
  ELSE IF LsFlags(lines[i]) = <<>>
       THEN Raised("IndexError", "string index out of range")
       ELSE LsLoop(lines, i + 1, Append(dir_entries, LsEntry(lines[i])))

\* cmd_ls reading the listing before it looks at the exit code.
cmd_ls_reads_first(a, res) ==
  LET read == LsLoop(SplitLines(Strip(res.stdout)), 2, <<>>)
  IN  IF read.kind = "raise" THEN read
      ELSE IF res.return_code # 0
      THEN Raised("RuntimeError", "Failed to list directory")
      ELSE read

cmd_ls(a, res) ==
  IF res.return_code # 0 THEN Raised("RuntimeError", "Failed to list directory")
  ELSE LsLoop(SplitLines(Strip(res.stdout)), 2, <<>>)

\* cmd_put(local_path, remote_path); a.local_path is a Str or a List
\* cmd_put passing the remote path on without ensure_trailing_slash.
cmd_put_command_as_given(a) ==
  IF a.local_path.t # "str" /\ a.remote_path = None
  THEN Early("AssertionError", "remote_path must be set when uploading multiple local items")
  ELSE LET local_paths == IF a.local_path.t = "str"
                          THEN <<clean_local_path(a.local_path.v, FALSE)>>
                          ELSE CleanLocalAll(a.local_path.v)
       IN  Command(<<<<"p", "u", "t">>, <<"-", "c">>>> \o local_paths
                   \o (IF a.remote_path = None THEN <<>>
                       ELSE <<clean_remote_path(a.remote_path.v, FALSE)>>))

cmd_put_command(a) ==
  IF a.local_path.t # "str" /\ a.remote_path = None
  THEN Early("AssertionError", "remote_path must be set when uploading multiple local items")
  ELSE LET local_paths == IF a.local_path.t = "str"
                          THEN <<clean_local_path(a.local_path.v, FALSE)>>
                          ELSE CleanLocalAll(a.local_path.v)
       IN  Command(<<<<"p", "u", "t">>, <<"-", "c">>>> \o local_paths
                   \o (IF a.remote_path = None THEN <<>>
                       ELSE <<clean_remote_path(a.remote_path.v,
                                                Len(local_paths) > 1)>>))

\* cmd_put returning False where it raises for a missing "Upload finished".
cmd_put_lenient(a, res) ==
  IF res.return_code = 0 /\ Contains(res.stdout, <<"U", "p", "l", "o", "a", "d", " ", "f", "i", "n", "i", "s", "h", "e", "d">>)
  THEN Returned(Bool(TRUE))
  ELSE Returned(Bool(FALSE))

cmd_put(a, res) ==
  IF res.return_code = 0
  THEN IF Contains(res.stdout, <<"U", "p", "l", "o", "a", "d", " ", "f", "i", "n", "i", "s", "h", "e", "d">>)
       THEN Returned(Bool(TRUE))
       ELSE Raised("RuntimeError", "Unexpected output from put command")
  ELSE Returned(Bool(FALSE))

\* cmd_pwd()
cmd_pwd_command(a) == Command(<<<<"p", "w", "d">>>>)

cmd_pwd(a, res) ==
  IF res.return_code = 0 THEN Returned(Str(Strip(res.stdout)))
  ELSE Raised("RuntimeError", "Failed to get current directory")

\* cmd_session()
cmd_session_command(a) == Command(<<<<"s", "e", "s", "s", "i", "o", "n">>>>)

\* cmd_session taking every failed session command for "not logged in".
cmd_session_none_on_failure(a, res) ==
  IF res.return_code = 0
  THEN LET match == ReSearch(RE_SESSION, res.stdout)
       IN  IF match.ok THEN Returned(Str(Group(res.stdout, match, 1)))
           ELSE Raised("NotImplementedError", "Unexpected output from session command")
  ELSE Returned(None)

cmd_session(a, res) ==
  IF res.return_code = 0
  THEN LET match == ReSearch(RE_SESSION, res.stdout)
       IN  IF match.ok THEN Returned(Str(Group(res.stdout, match, 1)))
           ELSE Raised("NotImplementedError", "Unexpected output from session command")
  ELSE IF Contains(res.stderr, <<"N", "o", "t", " ", "l", "o", "g", "g", "e", "d", " ", "i", "n">>) THEN Returned(None)
  ELSE Raised("NotImplementedError", "Unexpected output from session command")

\* cmd_tree(remote_path)
cmd_tree_command(a) ==
  Command(<<<<"t", "r", "e", "e">>>> \o
          (IF a.remote_path = None THEN <<>>
           ELSE <<clean_remote_path(a.remote_path.v, FALSE)>>))

cmd_tree(a, res) ==
  IF res.return_code # 0 THEN Raised("RuntimeError", "Failed to get directory tree")
  ELSE Returned(Str(Strip(res.stdout)))

\* cmd_version()
cmd_version_command(a) == Command(<<<<"v", "e", "r", "s", "i", "o", "n">>>>)

cmd_version(a, res) == Returned(Str(Strip(res.stdout)))

\* cmd_whoami()
cmd_whoami_command(a) == Command(<<<<"w", "h", "o", "a", "m", "i">>>>)

cmd_whoami(a, res) ==
  IF res.return_code # 0 THEN Returned(None)
  ELSE LET match == ReSearch(RE_WHOAMI_EMAIL, res.stdout)
       IN  IF match.ok THEN Returned(Str(Group(res.stdout, match, 1)))
           ELSE Raised("NotImplementedError", "Unexpected output from whoami command")

\* __init__(mega_cmd_path, check_path): with check_path it calls
\* cmd_version() and drops its result.
\* __init__ without its `if check_path:` block.
InitNeverProbes(check_path) == FALSE

InitProbes(check_path) == check_path

init_command(a) == cmd_version_command(a)

init_outcome(a, res) == Returned(None)

(***************************************************************************)
(* The method called, by name.                                             *)
(***************************************************************************)
CommandOf(op, a) ==
  CASE op = "cmd_cat" -> cmd_cat_command(a)
    [] op = "cmd_cd" -> cmd_cd_command(a)
    [] op = "cmd_df" -> cmd_df_command(a)
    [] op = "cmd_du" -> cmd_du_command(a)
    [] op = "cmd_export" -> cmd_export_command(a)
    [] op = "cmd_export__add" -> cmd_export__add_command(a)
    [] op = "cmd_export__delete" -> cmd_export__delete_command(a)
    [] op = "cmd_export__list" -> cmd_export__list_command(a)
    [] op = "cmd_find" -> cmd_find_command(a)
    [] op = "cmd_get" -> cmd_get_command(a)
    [] op = "cmd_import" -> cmd_import_command(a)
    [] op = "cmd_login" -> cmd_login_command(a)
    [] op = "cmd_logout" -> cmd_logout_command(a)
    [] op = "cmd_lcd" -> cmd_lcd_command(a)
    [] op = "cmd_lpwd" -> cmd_lpwd_command(a)
    [] op = "cmd_ls" -> cmd_ls_command(a)
    [] op = "cmd_put" -> cmd_put_command(a)
    [] op = "cmd_pwd" -> cmd_pwd_command(a)
    [] op = "cmd_session" -> cmd_session_command(a)
    [] op = "cmd_tree" -> cmd_tree_command(a)
    [] op = "cmd_version" -> cmd_version_command(a)
    [] op = "cmd_whoami" -> cmd_whoami_command(a)
    [] op = "__init__" -> init_command(a)

Decode(op, a, res) ==
  CASE op = "cmd_cat" -> cmd_cat(a, res)
    [] op = "cmd_cd" -> cmd_cd(a, res)
    [] op = "cmd_df" -> cmd_df(a, res)
    [] op = "cmd_du" -> cmd_du(a, res)
    [] op = "cmd_export" -> cmd_export(a, res)
    [] op = "cmd_export__add" -> cmd_export__add(a, res)
    [] op = "cmd_export__delete" -> cmd_export__delete(a, res)
    [] op = "cmd_export__list" -> cmd_export__list(a, res)
    [] op = "cmd_find" -> cmd_find(a, res)
    [] op = "cmd_get" -> cmd_get(a, res)
    [] op = "cmd_import" -> cmd_import(a, res)
    [] op = "cmd_login" -> cmd_login(a, res)
    [] op = "cmd_logout" -> cmd_logout(a, res)
    [] op = "cmd_lcd" -> cmd_lcd(a, res)
    [] op = "cmd_lpwd" -> cmd_lpwd(a, res)
    [] op = "cmd_ls" -> cmd_ls(a, res)
    [] op = "cmd_put" -> cmd_put(a, res)
    [] op = "cmd_pwd" -> cmd_pwd(a, res)
    [] op = "cmd_session" -> cmd_session(a, res)
    [] op = "cmd_tree" -> cmd_tree(a, res)
    [] op = "cmd_version" -> cmd_version(a, res)
    [] op = "cmd_whoami" -> cmd_whoami(a, res)
    [] op = "__init__" -> init_outcome(a, res)

(***************************************************************************)
(* The inputs of the model: what the binary may write (samples of each     *)
(* command's report, well-formed and not), the exit codes, and the         *)
(* arguments of each call.                                                 *)
(***************************************************************************)
\* (empty)
OUT_EMPTY ==
  <<>>

\* odd output
OUT_ODD ==
  <<"o", "d", "d", " ", "o", "u", "t", "p", "u", "t">>

\* hello
\* 
\* world
OUT_CAT ==
  <<"h", "e", "l", "l", "o", "\n", "\n", "w", "o", "r", "l", "d">>

\* Cloud drive:  10 in 2 file(s) and 1 folder(s)
\* Inbox: 3 in 1 file(s) and 0 folder(s)
\* Rubbish bin: 4 in 5 file(s) and 6 folder(s)
\* ----
\* USED STORAGE: 1000 50.0% of 2000
\* ----
\* Total size taken up by file versions: 7
OUT_DF_FULL ==
  <<"C", "l", "o", "u", "d", " ", "d", "r", "i", "v", "e", ":", " ", " ",
  "1", "0", " ", "i", "n", " ", "2", " ", "f", "i", "l", "e", "(", "s", ")",
  " ", "a", "n", "d", " ", "1", " ", "f", "o", "l", "d", "e", "r", "(", "s",
  ")", "\n", "I", "n", "b", "o", "x", ":", " ", "3", " ", "i", "n", " ",
  "1", " ", "f", "i", "l", "e", "(", "s", ")", " ", "a", "n", "d", " ", "0",
  " ", "f", "o", "l", "d", "e", "r", "(", "s", ")", "\n", "R", "u", "b",
  "b", "i", "s", "h", " ", "b", "i", "n", ":", " ", "4", " ", "i", "n", " ",
  "5", " ", "f", "i", "l", "e", "(", "s", ")", " ", "a", "n", "d", " ", "6",
  " ", "f", "o", "l", "d", "e", "r", "(", "s", ")", "\n", "-", "-", "-",
  "-", "\n", "U", "S", "E", "D", " ", "S", "T", "O", "R", "A", "G", "E",
  ":", " ", "1", "0", "0", "0", " ", "5", "0", ".", "0", "%", " ", "o", "f",
  " ", "2", "0", "0", "0", "\n", "-", "-", "-", "-", "\n", "T", "o", "t",
  "a", "l", " ", "s", "i", "z", "e", " ", "t", "a", "k", "e", "n", " ", "u",
  "p", " ", "b", "y", " ", "f", "i", "l", "e", " ", "v", "e", "r", "s", "i",
  "o", "n", "s", ":", " ", "7">>

\* USED STORAGE: 1000 50.0% of 2000
OUT_DF_USED ==
  <<"U", "S", "E", "D", " ", "S", "T", "O", "R", "A", "G", "E", ":", " ",
  "1", "0", "0", "0", " ", "5", "0", ".", "0", "%", " ", "o", "f", " ", "2",
  "0", "0", "0">>

\* Cloud drive: 1 in 1 file(s) and 1 folder(s)
\* bogus line
\* Cloud drive: 20 in 3 file(s) and 4 folder(s)
OUT_DF_TWICE ==
  <<"C", "l", "o", "u", "d", " ", "d", "r", "i", "v", "e", ":", " ", "1",
  " ", "i", "n", " ", "1", " ", "f", "i", "l", "e", "(", "s", ")", " ", "a",
  "n", "d", " ", "1", " ", "f", "o", "l", "d", "e", "r", "(", "s", ")",
  "\n", "b", "o", "g", "u", "s", " ", "l", "i", "n", "e", "\n", "C", "l",
  "o", "u", "d", " ", "d", "r", "i", "v", "e", ":", " ", "2", "0", " ", "i",
  "n", " ", "3", " ", "f", "i", "l", "e", "(", "s", ")", " ", "a", "n", "d",
  " ", "4", " ", "f", "o", "l", "d", "e", "r", "(", "s", ")">>

\* Inbox: 3 in 1 file(s) and 0 folder(s)
\* USED STORAGE: 1 1.2.3% of 5
OUT_DF_BADFLOAT ==
  <<"I", "n", "b", "o", "x", ":", " ", "3", " ", "i", "n", " ", "1", " ",
  "f", "i", "l", "e", "(", "s", ")", " ", "a", "n", "d", " ", "0", " ", "f",
  "o", "l", "d", "e", "r", "(", "s", ")", "\n", "U", "S", "E", "D", " ",
  "S", "T", "O", "R", "A", "G", "E", ":", " ", "1", " ", "1", ".", "2", ".",
  "3", "%", " ", "o", "f", " ", "5">>

\* Inbox: 3 in 1 file(s) and 0 folder(s)
\* USED STORAGE: 9 12.5% of 72
\*  Rubbish bin: 4 in 5 file(s) and 6 folder(s)
OUT_DF_PARTIAL ==
  <<"I", "n", "b", "o", "x", ":", " ", "3", " ", "i", "n", " ", "1", " ",
  "f", "i", "l", "e", "(", "s", ")", " ", "a", "n", "d", " ", "0", " ", "f",
  "o", "l", "d", "e", "r", "(", "s", ")", "\n", "U", "S", "E", "D", " ",
  "S", "T", "O", "R", "A", "G", "E", ":", " ", "9", " ", "1", "2", ".", "5",
  "%", " ", "o", "f", " ", "7", "2", "\n", " ", "R", "u", "b", "b", "i",
  "s", "h", " ", "b", "i", "n", ":", " ", "4", " ", "i", "n", " ", "5", " ",
  "f", "i", "l", "e", "(", "s", ")", " ", "a", "n", "d", " ", "6", " ", "f",
  "o", "l", "d", "e", "r", "(", "s", ")">>

\* FILENAME SIZE
\* /a: 5 6
\*  /b c: 7 8
\* ----
\* Total storage used: 12 14
OUT_DU_FULL ==
  <<"F", "I", "L", "E", "N", "A", "M", "E", " ", "S", "I", "Z", "E", "\n",
  "/", "a", ":", " ", "5", " ", "6", "\n", " ", "/", "b", " ", "c", ":",
  " ", "7", " ", "8", "\n", "-", "-", "-", "-", "\n", "T", "o", "t", "a",
  "l", " ", "s", "t", "o", "r", "a", "g", "e", " ", "u", "s", "e", "d", ":",
  " ", "1", "2", " ", "1", "4">>

\* /a: 5 6
OUT_DU_ENTRY ==
  <<"/", "a", ":", " ", "5", " ", "6">>

\* Exported /d: https://m/x
\*   AuthToken = tk
OUT_ADD_FOLDER ==
  <<"E", "x", "p", "o", "r", "t", "e", "d", " ", "/", "d", ":", " ", "h",
  "t", "t", "p", "s", ":", "/", "/", "m", "/", "x", "\n", " ", " ", "A",
  "u", "t", "h", "T", "o", "k", "e", "n", " ", "=", " ", "t", "k">>

\* Exported /f: https://m/y
OUT_ADD_FILE ==
  <<"E", "x", "p", "o", "r", "t", "e", "d", " ", "/", "f", ":", " ", "h",
  "t", "t", "p", "s", ":", "/", "/", "m", "/", "y">>

\* note
\* Exported /f: https://m/y
OUT_ADD_PRECEDED ==
  <<"n", "o", "t", "e", "\n", "E", "x", "p", "o", "r", "t", "e", "d", " ",
  "/", "f", ":", " ", "h", "t", "t", "p", "s", ":", "/", "/", "m", "/",
  "y">>

\* /f (12 KB, shared as exported permanent file link: https://m/y)
\* /d (folder, shared as exported permanent folder link: https://m/x AuthToken=tk)
OUT_LIST_BOTH ==
  <<"/", "f", " ", "(", "1", "2", " ", "K", "B", ",", " ", "s", "h", "a",
  "r", "e", "d", " ", "a", "s", " ", "e", "x", "p", "o", "r", "t", "e", "d",
  " ", "p", "e", "r", "m", "a", "n", "e", "n", "t", " ", "f", "i", "l", "e",
  " ", "l", "i", "n", "k", ":", " ", "h", "t", "t", "p", "s", ":", "/", "/",
  "m", "/", "y", ")", "\n", "/", "d", " ", "(", "f", "o", "l", "d", "e",
  "r", ",", " ", "s", "h", "a", "r", "e", "d", " ", "a", "s", " ", "e", "x",
  "p", "o", "r", "t", "e", "d", " ", "p", "e", "r", "m", "a", "n", "e", "n",
  "t", " ", "f", "o", "l", "d", "e", "r", " ", "l", "i", "n", "k", ":", " ",
  "h", "t", "t", "p", "s", ":", "/", "/", "m", "/", "x", " ", "A", "u", "t",
  "h", "T", "o", "k", "e", "n", "=", "t", "k", ")">>

\* /d (folder, shared as exported permanent folder link: https://m/x)
\* odd line
\* /f (1 B, shared as exported permanent file link: https://m/y)
OUT_LIST_THEN_ODD ==
  <<"/", "d", " ", "(", "f", "o", "l", "d", "e", "r", ",", " ", "s", "h",
  "a", "r", "e", "d", " ", "a", "s", " ", "e", "x", "p", "o", "r", "t", "e",
  "d", " ", "p", "e", "r", "m", "a", "n", "e", "n", "t", " ", "f", "o", "l",
  "d", "e", "r", " ", "l", "i", "n", "k", ":", " ", "h", "t", "t", "p", "s",
  ":", "/", "/", "m", "/", "x", ")", "\n", "o", "d", "d", " ", "l", "i",
  "n", "e", "\n", "/", "f", " ", "(", "1", " ", "B", ",", " ", "s", "h",
  "a", "r", "e", "d", " ", "a", "s", " ", "e", "x", "p", "o", "r", "t", "e",
  "d", " ", "p", "e", "r", "m", "a", "n", "e", "n", "t", " ", "f", "i", "l",
  "e", " ", "l", "i", "n", "k", ":", " ", "h", "t", "t", "p", "s", ":", "/",
  "/", "m", "/", "y", ")">>

\* /d <H:d1> (folder)
\* 
\*  /d/e <H:e2> (folder, shared as exported permanent folder link: https://m/e)
\* /f <H:f3> (12 KB)
\* /g <H:g4> (1 B, shared as exported permanent file link: https://m/g)
OUT_FIND_ALL ==
  <<"/", "d", " ", "<", "H", ":", "d", "1", ">", " ", "(", "f", "o", "l",
  "d", "e", "r", ")", "\n", "\n", " ", "/", "d", "/", "e", " ", "<", "H",
  ":", "e", "2", ">", " ", "(", "f", "o", "l", "d", "e", "r", ",", " ", "s",
  "h", "a", "r", "e", "d", " ", "a", "s", " ", "e", "x", "p", "o", "r", "t",
  "e", "d", " ", "p", "e", "r", "m", "a", "n", "e", "n", "t", " ", "f", "o",
  "l", "d", "e", "r", " ", "l", "i", "n", "k", ":", " ", "h", "t", "t", "p",
  "s", ":", "/", "/", "m", "/", "e", ")", "\n", "/", "f", " ", "<", "H",
  ":", "f", "3", ">", " ", "(", "1", "2", " ", "K", "B", ")", "\n", "/",
  "g", " ", "<", "H", ":", "g", "4", ">", " ", "(", "1", " ", "B", ",", " ",
  "s", "h", "a", "r", "e", "d", " ", "a", "s", " ", "e", "x", "p", "o", "r",
  "t", "e", "d", " ", "p", "e", "r", "m", "a", "n", "e", "n", "t", " ", "f",
  "i", "l", "e", " ", "l", "i", "n", "k", ":", " ", "h", "t", "t", "p", "s",
  ":", "/", "/", "m", "/", "g", ")">>

\* /f <H:f3> (12 KB)
\* 
\* odd line
\* /d <H:d1> (folder)
OUT_FIND_THEN_ODD ==
  <<"/", "f", " ", "<", "H", ":", "f", "3", ">", " ", "(", "1", "2", " ",
  "K", "B", ")", "\n", "\n", "o", "d", "d", " ", "l", "i", "n", "e", "\n",
  "/", "d", " ", "<", "H", ":", "d", "1", ">", " ", "(", "f", "o", "l", "d",
  "e", "r", ")">>

\* Download finished: /tmp/f
OUT_GET ==
  <<"D", "o", "w", "n", "l", "o", "a", "d", " ", "f", "i", "n", "i", "s",
  "h", "e", "d", ":", " ", "/", "t", "m", "p", "/", "f">>

\* Imported folder complete: /d
OUT_IMPORT_FOLDER ==
  <<"I", "m", "p", "o", "r", "t", "e", "d", " ", "f", "o", "l", "d", "e",
  "r", " ", "c", "o", "m", "p", "l", "e", "t", "e", ":", " ", "/", "d">>

\* Imported file complete: /f
OUT_IMPORT_FILE ==
  <<"I", "m", "p", "o", "r", "t", "e", "d", " ", "f", "i", "l", "e", " ",
  "c", "o", "m", "p", "l", "e", "t", "e", ":", " ", "/", "f">>

\* Logging out...
\* session id: abc
OUT_LOGOUT_SESSION ==
  <<"L", "o", "g", "g", "i", "n", "g", " ", "o", "u", "t", ".", ".", ".",
  "\n", "s", "e", "s", "s", "i", "o", "n", " ", "i", "d", ":", " ", "a",
  "b", "c">>

\* Logging out...
OUT_LOGOUT ==
  <<"L", "o", "g", "g", "i", "n", "g", " ", "o", "u", "t", ".", ".", ".">>

\* session id: abc
\* Bye
OUT_LOGOUT_SESSION_MID ==
  <<"s", "e", "s", "s", "i", "o", "n", " ", "i", "d", ":", " ", "a", "b",
  "c", "\n", "B", "y", "e">>

\* FLAGS VERS    SIZE         DATE            HANDLE   NAME
\* d---   -            - 01Jan2024 10:00:00 H:aaaaaaaa my dir
\* ----   1        12 KB 02Feb2024 11:00:00 H:bbbbbbbb f.txt
\* -ep-   2            0 03Mar2024 12:00:00 H:cccccccc d  e 
OUT_LS ==
  <<"F", "L", "A", "G", "S", " ", "V", "E", "R", "S", " ", " ", " ", " ",
  "S", "I", "Z", "E", " ", " ", " ", " ", " ", " ", " ", " ", " ", "D", "A",
  "T", "E", " ", " ", " ", " ", " ", " ", " ", " ", " ", " ", " ", " ", "H",
  "A", "N", "D", "L", "E", " ", " ", " ", "N", "A", "M", "E", "\n", "d",
  "-", "-", "-", " ", " ", " ", "-", " ", " ", " ", " ", " ", " ", " ", " ",
  " ", " ", " ", " ", "-", " ", "0", "1", "J", "a", "n", "2", "0", "2", "4",
  " ", "1", "0", ":", "0", "0", ":", "0", "0", " ", "H", ":", "a", "a", "a",
  "a", "a", "a", "a", "a", " ", "m", "y", " ", "d", "i", "r", "\n", "-",
  "-", "-", "-", " ", " ", " ", "1", " ", " ", " ", " ", " ", " ", " ", " ",
  "1", "2", " ", "K", "B", " ", "0", "2", "F", "e", "b", "2", "0", "2", "4",
  " ", "1", "1", ":", "0", "0", ":", "0", "0", " ", "H", ":", "b", "b", "b",
  "b", "b", "b", "b", "b", " ", "f", ".", "t", "x", "t", "\n", "-", "e",
  "p", "-", " ", " ", " ", "2", " ", " ", " ", " ", " ", " ", " ", " ", " ",
  " ", " ", " ", "0", " ", "0", "3", "M", "a", "r", "2", "0", "2", "4", " ",
  "1", "2", ":", "0", "0", ":", "0", "0", " ", "H", ":", "c", "c", "c", "c",
  "c", "c", "c", "c", " ", "d", " ", " ", "e", " ">>

\* FLAGS VERS    SIZE         DATE            HANDLE   NAME
OUT_LS_HEADER ==
  <<"F", "L", "A", "G", "S", " ", "V", "E", "R", "S", " ", " ", " ", " ",
  "S", "I", "Z", "E", " ", " ", " ", " ", " ", " ", " ", " ", " ", "D", "A",
  "T", "E", " ", " ", " ", " ", " ", " ", " ", " ", " ", " ", " ", " ", "H",
  "A", "N", "D", "L", "E", " ", " ", " ", "N", "A", "M", "E">>

\* FLAGS VERS    SIZE         DATE            HANDLE   NAME
\* d---   -            - 01Jan2024 10:00:00 H:aaaaaaaa my dir
\* 
\* ----   1        12 KB 02Feb2024 11:00:00 H:bbbbbbbb f.txt
OUT_LS_BLANK ==
  <<"F", "L", "A", "G", "S", " ", "V", "E", "R", "S", " ", " ", " ", " ",
  "S", "I", "Z", "E", " ", " ", " ", " ", " ", " ", " ", " ", " ", "D", "A",
  "T", "E", " ", " ", " ", " ", " ", " ", " ", " ", " ", " ", " ", " ", "H",
  "A", "N", "D", "L", "E", " ", " ", " ", "N", "A", "M", "E", "\n", "d",
  "-", "-", "-", " ", " ", " ", "-", " ", " ", " ", " ", " ", " ", " ", " ",
  " ", " ", " ", " ", "-", " ", "0", "1", "J", "a", "n", "2", "0", "2", "4",
  " ", "1", "0", ":", "0", "0", ":", "0", "0", " ", "H", ":", "a", "a", "a",
  "a", "a", "a", "a", "a", " ", "m", "y", " ", "d", "i", "r", "\n", "\n",
  "-", "-", "-", "-", " ", " ", " ", "1", " ", " ", " ", " ", " ", " ", " ",
  " ", "1", "2", " ", "K", "B", " ", "0", "2", "F", "e", "b", "2", "0", "2",
  "4", " ", "1", "1", ":", "0", "0", ":", "0", "0", " ", "H", ":", "b", "b",
  "b", "b", "b", "b", "b", "b", " ", "f", ".", "t", "x", "t">>

\* Upload finished: /x
OUT_PUT ==
  <<"U", "p", "l", "o", "a", "d", " ", "f", "i", "n", "i", "s", "h", "e",
  "d", ":", " ", "/", "x">>

\* /d
OUT_PWD ==
  <<"/", "d">>

\* Your (secret) session is: SESS
OUT_SESSION ==
  <<"Y", "o", "u", "r", " ", "(", "s", "e", "c", "r", "e", "t", ")", " ",
  "s", "e", "s", "s", "i", "o", "n", " ", "i", "s", ":", " ", "S", "E", "S",
  "S">>

\* Your (secret) session is: SESS
\* more
OUT_SESSION_MORE ==
  <<"Y", "o", "u", "r", " ", "(", "s", "e", "c", "r", "e", "t", ")", " ",
  "s", "e", "s", "s", "i", "o", "n", " ", "i", "s", ":", " ", "S", "E", "S",
  "S", "\n", "m", "o", "r", "e">>

\* d
\*   e
OUT_TREE ==
  <<"d", "\n", " ", " ", "e">>

\* MEGAcmd version: 1.6.3
OUT_VERSION ==
  <<"M", "E", "G", "A", "c", "m", "d", " ", "v", "e", "r", "s", "i", "o",
  "n", ":", " ", "1", ".", "6", ".", "3">>

\* Account e-mail: a@b.c
OUT_WHOAMI ==
  <<"A", "c", "c", "o", "u", "n", "t", " ", "e", "-", "m", "a", "i", "l",
  ":", " ", "a", "@", "b", ".", "c">>

\* Account e-mail: a@b.c
\* Available storage: 1
OUT_WHOAMI_MORE ==
  <<"A", "c", "c", "o", "u", "n", "t", " ", "e", "-", "m", "a", "i", "l",
  ":", " ", "a", "@", "b", ".", "c", "\n", "A", "v", "a", "i", "l", "a",
  "b", "l", "e", " ", "s", "t", "o", "r", "a", "g", "e", ":", " ", "1">>

\* Welcome
\* Account e-mail: a@b.c
OUT_WHOAMI_AFTER ==
  <<"W", "e", "l", "c", "o", "m", "e", "\n", "A", "c", "c", "o", "u", "n",
  "t", " ", "e", "-", "m", "a", "i", "l", ":", " ", "a", "@", "b", ".",
  "c">>

\* What the binary may write to stdout, per method.
Stdouts(op) ==
  CASE op = "cmd_cat" -> {OUT_EMPTY, OUT_CAT}
    [] op = "cmd_cd" -> {OUT_EMPTY, OUT_ODD}
    [] op = "cmd_df" -> {OUT_EMPTY, OUT_ODD, OUT_DF_FULL, OUT_DF_USED, OUT_DF_TWICE, OUT_DF_BADFLOAT, OUT_DF_PARTIAL}
    [] op = "cmd_du" -> {OUT_EMPTY, OUT_ODD, OUT_DU_FULL, OUT_DU_ENTRY}
    [] op = "cmd_export" -> {OUT_EMPTY, OUT_ADD_FOLDER, OUT_ADD_FILE, OUT_LIST_BOTH, OUT_LIST_THEN_ODD}
    [] op = "cmd_export__add" -> {OUT_EMPTY, OUT_ODD, OUT_ADD_FOLDER, OUT_ADD_FILE, OUT_ADD_PRECEDED}
    [] op = "cmd_export__delete" -> {OUT_EMPTY, OUT_ODD}
    [] op = "cmd_export__list" -> {OUT_EMPTY, OUT_ODD, OUT_LIST_BOTH, OUT_LIST_THEN_ODD}
    [] op = "cmd_find" -> {OUT_EMPTY, OUT_ODD, OUT_FIND_ALL, OUT_FIND_THEN_ODD}
    [] op = "cmd_get" -> {OUT_EMPTY, OUT_ODD, OUT_GET}
    [] op = "cmd_import" -> {OUT_EMPTY, OUT_ODD, OUT_IMPORT_FOLDER, OUT_IMPORT_FILE}
    [] op = "cmd_login" -> {OUT_EMPTY, OUT_ODD}
    [] op = "cmd_logout" -> {OUT_EMPTY, OUT_LOGOUT, OUT_LOGOUT_SESSION, OUT_LOGOUT_SESSION_MID}
    [] op = "cmd_lcd" -> {OUT_EMPTY, OUT_ODD}
    [] op = "cmd_lpwd" -> {OUT_EMPTY, OUT_PWD}
    [] op = "cmd_ls" -> {OUT_EMPTY, OUT_LS, OUT_LS_HEADER, OUT_LS_BLANK}
    [] op = "cmd_put" -> {OUT_EMPTY, OUT_ODD, OUT_PUT}
    [] op = "cmd_pwd" -> {OUT_EMPTY, OUT_PWD}
    [] op = "cmd_session" -> {OUT_EMPTY, OUT_ODD, OUT_SESSION, OUT_SESSION_MORE}
    [] op = "cmd_tree" -> {OUT_EMPTY, OUT_TREE}
    [] op = "cmd_version" -> {OUT_EMPTY, OUT_VERSION}
    [] op = "cmd_whoami" -> {OUT_EMPTY, OUT_ODD, OUT_WHOAMI, OUT_WHOAMI_MORE, OUT_WHOAMI_AFTER}
    [] op = "__init__" -> {OUT_EMPTY, OUT_VERSION}

\* Not logged in.
ERR_NOT_LOGGED_IN ==
  <<"N", "o", "t", " ", "l", "o", "g", "g", "e", "d", " ", "i", "n", ".">>

\* What the binary may write, <<stdout, stderr>>: each stdout sample with
\* nothing on stderr, and an error message on stderr alone.
Outputs(op) ==
  {<<out, <<>>>> : out \in Stdouts(op)} \cup {<<OUT_EMPTY, ERR_NOT_LOGGED_IN>>}

\* The exit codes the wrapper tells apart (51, 53, 54, 55), success and
\* one other failure.
ExitCodes == {0, 1, 51, 53, 54, 55}

\* White space around the captured text: none, or blanks and line ends.
Pads == {<<<<>>, <<>>>>, <<<<" ", "\n">>, <<"\n">>>>}

NoArgs == <<>>

\* The arguments of the calls, per method.
ArgsOf(op) ==
  CASE op = "cmd_cat" ->
        {[remote_paths |-> <<<<"/", "d">>>>, is_str |-> FALSE],
        [remote_paths |-> <<<<" ", ".", "/", "a">>, <<"/", "d">>>>, is_str |-> FALSE],
        [remote_paths |-> <<>>, is_str |-> TRUE]}
    [] op = "cmd_cd" ->
        {[remote_path |-> Str(<<"/", "d">>)],
        [remote_path |-> Str(<<" ", ".", "/", "a">>)]}
    [] op = "cmd_df" ->
        {NoArgs}
    [] op = "cmd_du" ->
        {[remote_paths |-> <<<<"/", "d">>>>, is_str |-> FALSE],
        [remote_paths |-> <<<<" ", ".", "/", "a">>, <<"/", "d">>>>, is_str |-> FALSE],
        [remote_paths |-> <<>>, is_str |-> TRUE]}
    [] op = "cmd_export" ->
        [action : {"add", "delete", "list", "purge"}, remote_path : {None, Str(<<" ", ".", "/", "a">>)},
        writeable : BOOLEAN, password : {None, Str(<<"p", "w">>)}]
    [] op = "cmd_export__add" ->
        [remote_path : {<<" ", ".", "/", "a">>}, writeable : BOOLEAN, password : {None, Str(<<"p", "w">>)}]
    [] op = "cmd_export__delete" ->
        {[remote_path |-> <<" ", ".", "/", "a">>]}
    [] op = "cmd_export__list" ->
        {[remote_path |-> None],
        [remote_path |-> Str(<<" ", ".", "/", "a">>)]}
    [] op = "cmd_find" ->
        {[remote_path |-> None, pattern |-> None, time_constraint |-> None, size_constraint |-> None],
        [remote_path |-> Str(<<" ", ".", "/", "a">>), pattern |-> Str(<<"*", ".", "t">>), time_constraint |-> None, size_constraint |-> None],
        [remote_path |-> Str(<<"/", "d">>), pattern |-> None, time_constraint |-> Str(<<"+", "1", "d">>), size_constraint |-> Str(<<"-", "1", "M">>)]}
    [] op = "cmd_get" ->
        {[path_remote |-> <<"/", "d">>, path_local |-> None, password |-> None, merge |-> FALSE],
        [path_remote |-> <<" ", ".", "/", "a">>, path_local |-> Str(<<"l", "/">>), password |-> Str(<<"p", "w">>), merge |-> TRUE]}
    [] op = "cmd_import" ->
        {[exported_link |-> <<"h", "t", "t", "p", "s", ":", "/", "/", "m", "/", "x">>, remote_path |-> None, password |-> None],
        [exported_link |-> <<"h", "t", "t", "p", "s", ":", "/", "/", "m", "/", "x">>, remote_path |-> Str(<<" ", ".", "/", "a">>), password |-> Str(<<"p", "w">>)]}
    [] op = "cmd_login" ->
        [email : {None, Str(<<"a", "@", "b", ".", "c">>)}, password : {None, Str(<<"p", "w">>), Str(<<>>)},
        auth_code : {None, Str(<<"1", "2">>)}, session : {None, Str(<<"S", "E", "S", "S">>)}]
    [] op = "cmd_logout" ->
        {[keep_session |-> FALSE],
        [keep_session |-> TRUE]}
    [] op = "cmd_lcd" ->
        {[local_path |-> <<"l", "/">>]}
    [] op = "cmd_lpwd" ->
        {NoArgs}
    [] op = "cmd_ls" ->
        {[remote_path |-> <<"/", "d">>],
        [remote_path |-> <<" ", ".", "/", "a">>]}
    [] op = "cmd_put" ->
        {[local_path |-> Str(<<"l", "/">>), remote_path |-> None],
        [local_path |-> Str(<<"l", "/">>), remote_path |-> Str(<<"/", "d">>)],
        [local_path |-> List(<<<<"l", "/">>, <<"m">>>>), remote_path |-> Str(<<"/", "d">>)],
        [local_path |-> List(<<<<"l", "/">>, <<"m">>>>), remote_path |-> None],
        [local_path |-> List(<<<<"m">>>>), remote_path |-> Str(<<"/", "d", "/">>)]}
    [] op = "cmd_pwd" ->
        {NoArgs}
    [] op = "cmd_session" ->
        {NoArgs}
    [] op = "cmd_tree" ->
        {[remote_path |-> None],
        [remote_path |-> Str(<<" ", ".", "/", "a">>)]}
    [] op = "cmd_version" ->
        {NoArgs}
    [] op = "cmd_whoami" ->
        {NoArgs}

Ops ==
  {"cmd_cat", "cmd_cd", "cmd_df", "cmd_du", "cmd_export",
   "cmd_export__add", "cmd_export__delete", "cmd_export__list",
   "cmd_find", "cmd_get", "cmd_import", "cmd_login", "cmd_logout",
   "cmd_lcd", "cmd_lpwd", "cmd_ls", "cmd_put", "cmd_pwd", "cmd_session",
   "cmd_tree", "cmd_version", "cmd_whoami"}

(***************************************************************************)
(* The environment: the paths a wrapper may be given, and those at which   *)
(* an executable exists (subprocess.run raises FileNotFoundError at the    *)
(* others).                                                                *)
(***************************************************************************)
MegaPaths == {<<"m", "e", "g", "a", "-", "e", "x", "e", "c">>, <<"n", "o", "w", "h", "e", "r", "e">>}
Executables == {<<"m", "e", "g", "a", "-", "e", "x", "e", "c">>}

\* subprocess.Popen in the place of subprocess.run: the caller goes on
\* without waiting for the process.
AfterPopen == "idle"

\* subprocess.run(command, capture_output=True, ...) returns only when the
\* process has exited: the caller waits for it.
AfterSubprocessRun == "waiting"

\* _run_mega_cmd, first half: the command line it runs, or the
\* FileNotFoundError of subprocess.run when no executable is at the path.
RunCommand(mega_cmd_path, args) == <<mega_cmd_path>> \o args

\* _run_mega_cmd with check=True given to subprocess.run: a non-zero exit
\* code raises CalledProcessError.
run_mega_cmd_check(result) ==
  IF result.returncode # 0
  THEN [raised |-> TRUE, exc |-> "CalledProcessError", res |-> None]
  ELSE [raised |-> FALSE, exc |-> "",
        res |-> CMDResult(Strip(result.stdout), Strip(result.stderr), result.returncode)]

\* _run_mega_cmd, second half: from the CompletedProcess of subprocess.run
\* (check is not set, so no exit code raises) to the CMDResult.
run_mega_cmd(result) ==
  [raised |-> FALSE, exc |-> "",
   res |-> CMDResult(Strip(result.stdout), Strip(result.stderr), result.returncode)]

(***************************************************************************)
(* The state.                                                              *)
(***************************************************************************)
VARIABLES
  wrapper,    \* the MEGAcmdWrapper object: None, or its mega_cmd_path field
  pc,         \* the caller: "idle", or "waiting" inside subprocess.run
  call,       \* the call in progress, or the last one: [op, args]
  procs,      \* the command lines of the processes in progress
  spawned,    \* the number of processes the call has started
  result,     \* the CompletedProcess of the call's process, once it exited
  res,        \* the CMDResult _run_mega_cmd built from it
  outcome,    \* what the last call returned or raised; Pending during a call
  remembered  \* history: None, or an earlier call whose process has exited

vars == <<wrapper, pc, call, procs, spawned, result, res, outcome, remembered>>

Pending == [kind |-> "pending", exc |-> "", msg |-> "", val |-> None]

Init ==
  /\ wrapper = None
  /\ pc = "idle"
  /\ call = [op |-> "none", args |-> NoArgs]
  /\ procs = <<>>
  /\ spawned = 0
  /\ result = None
  /\ res = None
  /\ outcome = Returned(None)
  /\ remembered = None

\* The call of a method up to subprocess.run: it raises before running
\* anything, or fails to start the binary, or starts it and waits.
Start(op, a, path) ==
  LET c == CommandOf(op, a)
  IN  /\ call' = [op |-> op, args |-> a]
      /\ result' = None
      /\ res' = None
      /\ IF c.early
         THEN /\ outcome' = c.outcome
              /\ spawned' = 0
              /\ UNCHANGED <<pc, procs>>
         ELSE IF path \notin Executables
         THEN /\ outcome' = Raised("FileNotFoundError", "No such file or directory")
              /\ spawned' = 0
              /\ UNCHANGED <<pc, procs>>
         ELSE /\ outcome' = Pending
              /\ spawned' = 1
              /\ procs' = Append(procs, RunCommand(path, c.command))
              /\ pc' = AfterSubprocessRun

\* The object __init__ leaves: its mega_cmd_path field (v), and for the
\* record the check_path it was built with.
Wrapper(mega_cmd_path, check_path) ==
  [t |-> "MEGAcmdWrapper", v |-> mega_cmd_path, check_path |-> check_path]

\* MEGAcmdWrapper(mega_cmd_path, check_path)
Construct(mega_cmd_path, check_path) ==
  /\ pc = "idle"
  /\ IF InitProbes(check_path)
     THEN /\ Start("__init__", [mega_cmd_path |-> mega_cmd_path,
                                check_path |-> check_path], mega_cmd_path)
          /\ UNCHANGED wrapper
     ELSE /\ wrapper' = Wrapper(mega_cmd_path, check_path)
          /\ call' = [op |-> "__init__",
                      args |-> [mega_cmd_path |-> mega_cmd_path,
                                check_path |-> check_path]]
          /\ outcome' = Returned(None)
          /\ spawned' = 0
          /\ result' = None
          /\ res' = None
          /\ UNCHANGED <<pc, procs>>

\* wrapper.cmd_X(...)
Call(op, a) ==
  /\ pc = "idle"
  /\ wrapper # None
  /\ Start(op, a, wrapper.v)
  /\ UNCHANGED wrapper

\* Finish of a wrapper that keeps the calls it has made: a call made before
\* with the same arguments is answered True, as already done.
Finish_already_done(rc, out, err, pad) ==
  /\ procs # <<>>
  /\ LET completed == [args |-> Head(procs), returncode |-> rc,
                       stdout |-> pad[1] \o out \o pad[2],
                       stderr |-> pad[1] \o err \o pad[2]]
         r == run_mega_cmd(completed)
     IN  /\ result' = completed
         /\ procs' = Tail(procs)
         /\ pc' = "idle"
         /\ res' = r.res
         /\ outcome' = IF remembered # None /\ remembered.call = call
                       THEN Returned(Bool(TRUE))
                       ELSE Decode(call.op, call.args, r.res)
         /\ wrapper' = IF call.op = "__init__"
                       THEN Wrapper(call.args.mega_cmd_path, call.args.check_path)
                       ELSE wrapper
  /\ UNCHANGED <<call, spawned>>

\* The process exits with return code rc having written out and err, and
\* the call goes on to its end: _run_mega_cmd builds the CMDResult, the
\* method decodes it; __init__ ends with the object constructed.
Finish(rc, out, err, pad) ==
  /\ procs # <<>>
  /\ LET completed == [args |-> Head(procs), returncode |-> rc,
                       stdout |-> pad[1] \o out \o pad[2],
                       stderr |-> pad[1] \o err \o pad[2]]
         r == run_mega_cmd(completed)
     IN  /\ result' = completed
         /\ procs' = Tail(procs)
         /\ pc' = "idle"
         /\ IF r.raised
            THEN /\ outcome' = Raised(r.exc, "")
                 /\ UNCHANGED <<res, wrapper>>
            ELSE /\ res' = r.res
                 /\ outcome' = Decode(call.op, call.args, r.res)
                 /\ wrapper' = IF call.op = "__init__"
                               THEN Wrapper(call.args.mega_cmd_path,
                                            call.args.check_path)
                               ELSE wrapper
  /\ UNCHANGED <<call, spawned>>

Next ==
  \/ /\ \E p \in MegaPaths, b \in BOOLEAN : Construct(p, b)
     /\ UNCHANGED remembered
  \/ /\ \E op \in Ops : \E a \in ArgsOf(op) : Call(op, a)
     /\ UNCHANGED remembered
  \/ /\ procs # <<>>
     /\ \E rc \in ExitCodes, o \in Outputs(call.op), pad \in Pads :
          Finish(rc, o[1], o[2], pad)
     /\ UNCHANGED remembered

Spec == Init /\ [][Next]_vars

(***************************************************************************)
(* The same wrapper with a history variable, for the properties that       *)
(* compare two calls of one run: one finished call is remembered, with the *)
(* CompletedProcess of its process and its outcome, and whether a          *)
(* different call has finished since.  The calls are those of the          *)
(* operations HistoryOps, whose processes exit with the codes              *)
(* HistoryExitCodes.                                                       *)
(***************************************************************************)
HistoryOps == {"cmd_cd", "cmd_lcd", "cmd_login", "cmd_logout", "cmd_whoami", "cmd_session"}
HistoryExitCodes == {0, 55}
NoPad == <<<<>>, <<>>>>

\* The finished call is remembered.
FinishRemembered(rc, out, err) ==
  /\ remembered = None
  /\ Finish(rc, out, err, NoPad)
  /\ remembered' = [call |-> call, result |-> result', outcome |-> outcome',
                    between |-> FALSE]

\* A call finishes after the remembered one, or none is remembered yet.
FinishCompared(rc, out, err) ==
  /\ Finish(rc, out, err, NoPad)
  /\ remembered' =
       IF remembered # None
            /\ (remembered.call # call \/ remembered.result # result')
       THEN [remembered EXCEPT !.between = TRUE]
       ELSE remembered

NextHistory ==
  \/ /\ \E p \in MegaPaths, b \in BOOLEAN : Construct(p, b)
     /\ UNCHANGED remembered
  \/ /\ \E op \in HistoryOps : \E a \in ArgsOf(op) : Call(op, a)
     /\ UNCHANGED remembered
  \/ /\ procs # <<>>
     /\ \E rc \in HistoryExitCodes, o \in Outputs(call.op) :
          FinishRemembered(rc, o[1], o[2])
  \/ /\ procs # <<>>
     /\ \E rc \in HistoryExitCodes, o \in Outputs(call.op) :
          FinishCompared(rc, o[1], o[2])

SpecHistory == Init /\ [][NextHistory]_vars

(***************************************************************************)
(* Properties of the wrapper.                                              *)
(***************************************************************************)

\* The path at which the call in `call` runs the binary.
PathOfCall ==
  IF call.op = "__init__" THEN call.args.mega_cmd_path ELSE wrapper.v

\* s is raw without its leading and trailing whitespace: raw is a run of
\* whitespace, then s, then a run of whitespace, and s neither starts nor
\* ends with whitespace.
IsStripOf(s, raw) ==
  /\ s # <<>> => s[1] \notin Whitespace /\ s[Len(s)] \notin Whitespace
  /\ \E k \in 0..(Len(raw) - Len(s)) :
       /\ \A i \in 1..Len(s) : raw[k + i] = s[i]
       /\ \A i \in 1..Len(raw) : (i <= k \/ i > k + Len(s)) => raw[i] \in Whitespace

\* C1: the command runner turns every completed process into a CMDResult,
\* whatever its exit code (no exit code makes the runner raise): the
\* CMDResult holds the exit code and the captured stdout and stderr with
\* leading and trailing whitespace removed, and the command line of the
\* process is the wrapper's binary path followed by the arguments of the
\* operation, in order.
C1_RunnerBuildsResult ==
  /\ \A i \in 1..Len(procs) :
       procs[i] = <<PathOfCall>> \o CommandOf(call.op, call.args).command
  /\ result # None =>
       /\ res # None
       /\ outcome.exc # "CalledProcessError"
       /\ res.return_code = result.returncode
       /\ IsStripOf(res.stdout, result.stdout)
       /\ IsStripOf(res.stderr, result.stderr)
       /\ Head(result.args) = PathOfCall
       /\ Tail(result.args) = CommandOf(call.op, call.args).command

\* A process given two arguments exited with code 53 and padded output.
C1_Witness ==
  /\ result # None
  /\ res # None
  /\ result.returncode = 53
  /\ Len(result.args) > 2
  /\ res.stdout # <<>>
  /\ Len(result.stdout) > Len(res.stdout)
  /\ Len(result.stderr) > Len(res.stderr)

\* C2 as stated: every public operation, and a construction with
\* check_path, has run exactly one process by the time it returns or
\* raises, and no two processes are ever in progress.
C2_ExactlyOneProcess ==
  /\ Len(procs) <= 1
  /\ pc = "idle" => procs = <<>>
  /\ (/\ pc = "idle"
      /\ call.op # "none"
      /\ call.op = "__init__" => call.args.check_path) => spawned = 1

\* C2, amended: an operation runs at most one process: none when it raises
\* before running the binary (its arguments are rejected, or no executable
\* is at the wrapper's path) or is a construction without check_path,
\* exactly one otherwise; it returns or raises only once that process has
\* exited, and no two processes are ever in progress.
C2_AtMostOneProcess ==
  /\ Len(procs) <= 1
  /\ spawned <= 1
  /\ Len(procs) <= spawned
  /\ pc = "idle" => procs = <<>>
  /\ (outcome = Pending) = (pc # "idle")
  /\ (pc = "idle" /\ call.op # "none") =>
       /\ (spawned = 1) = (result # None)
       /\ (spawned = 0) = (\/ CommandOf(call.op, call.args).early
                           \/ PathOfCall \notin Executables
                           \/ call.op = "__init__" /\ ~call.args.check_path)

\* cmd_export has returned after its one process exited.
C2_Witness ==
  /\ pc = "idle"
  /\ call.op = "cmd_export"
  /\ spawned = 1
  /\ procs = <<>>
  /\ result # None
  /\ outcome.kind = "return"

\* C3: cmd_cat returns the stdout text on exit code 0, raises "remote path
\* not found" on 53, "remote path is not a file" on 51 and an unknown-error
\* failure on any other code; it returns no string on a non-zero code.
C3_CatExitCodes ==
  (call.op = "cmd_cat" /\ result # None) =>
    /\ result.returncode = 0 => outcome = Returned(Str(Strip(result.stdout)))
    /\ result.returncode = 53 =>
         outcome = Raised("RuntimeError", "Remote path not found")
    /\ result.returncode = 51 =>
         outcome = Raised("RuntimeError", "Remote path is not a file")
    /\ result.returncode \notin {0, 53, 51} =>
         outcome = Raised("RuntimeError", "Unknown error in cat command")
    /\ result.returncode # 0 => outcome.kind = "raise" /\ outcome.val = None

\* cmd_cat's process wrote text and exited with code 51.
C3_Witness ==
  /\ call.op = "cmd_cat"
  /\ result # None
  /\ result.returncode = 51
  /\ Strip(result.stdout) # <<>>
  /\ outcome.kind = "raise"

\* The text the operation looks for in the stdout of a process that exited
\* with code 0: its success marker, or the shape of its answer.
KnownShape(op, stdout) ==
  CASE op = "cmd_export__add" ->
         \/ ReSearch(RE_EXPORT__ADD_FOLDER, stdout).ok
         \/ ReSearch(RE_EXPORT__ADD_FILE, stdout).ok
    [] op = "cmd_get" -> Contains(stdout, <<"D", "o", "w", "n", "l", "o", "a", "d", " ", "f", "i", "n", "i", "s", "h", "e", "d">>)
    [] op = "cmd_put" -> Contains(stdout, <<"U", "p", "l", "o", "a", "d", " ", "f", "i", "n", "i", "s", "h", "e", "d">>)
    [] op = "cmd_import" ->
         \/ Contains(stdout, <<"I", "m", "p", "o", "r", "t", "e", "d", " ", "f", "o", "l", "d", "e", "r", " ", "c", "o", "m", "p", "l", "e", "t", "e", ":">>)
         \/ Contains(stdout, <<"I", "m", "p", "o", "r", "t", "e", "d", " ", "f", "i", "l", "e", " ", "c", "o", "m", "p", "l", "e", "t", "e", ":">>)
    [] op = "cmd_session" -> ReSearch(RE_SESSION, stdout).ok
    [] op = "cmd_whoami" -> ReSearch(RE_WHOAMI_EMAIL, stdout).ok

\* The process of one of the six operations exited with code 0 and its
\* stdout has none of the operation's known shapes.
UnexpectedOutput ==
  /\ call.op \in {"cmd_export__add", "cmd_get", "cmd_put", "cmd_import",
                  "cmd_session", "cmd_whoami"}
  /\ result # None
  /\ result.returncode = 0
  /\ ~KnownShape(call.op, res.stdout)

\* C4 as stated: in export__add, get, put, import, session and whoami, exit
\* code 0 with a stdout of none of the known shapes raises an "unexpected
\* output" failure; no value is returned.
C4_UnexpectedOutputRaises == UnexpectedOutput => outcome.kind = "raise"

\* C4, amended: on exit code 0 with a stdout of none of the known shapes,
\* cmd_put and cmd_import raise RuntimeError and cmd_session and cmd_whoami
\* raise NotImplementedError, while cmd_export__add returns None and
\* cmd_get returns False.
C4_UnexpectedOutputOutcome ==
  UnexpectedOutput =>
    outcome =
      CASE call.op = "cmd_put" ->
             Raised("RuntimeError", "Unexpected output from put command")
        [] call.op = "cmd_import" -> Raised("RuntimeError", "Failed to import link")
        [] call.op = "cmd_session" ->
             Raised("NotImplementedError", "Unexpected output from session command")
        [] call.op = "cmd_whoami" ->
             Raised("NotImplementedError", "Unexpected output from whoami command")
        [] call.op = "cmd_export__add" -> Returned(None)
        [] call.op = "cmd_get" -> Returned(Bool(FALSE))

\* cmd_export__add got "odd output" with exit code 0 and returned None.
C4_Witness ==
  /\ UnexpectedOutput
  /\ call.op = "cmd_export__add"
  /\ res.stdout = OUT_ODD
  /\ outcome = Returned(None)

\* Line i of cmd_df's or cmd_du's stdout is not blank and has none of the
\* operation's line shapes.
UnknownLine(op, lines, i) ==
  /\ Strip(lines[i]) # <<>>
  /\ IF op = "cmd_df" THEN ~DfKnown(lines[i]) ELSE ~DuKnown(lines[i])

\* The process of cmd_df or cmd_du exited with code 0.
DfDuDone ==
  /\ call.op \in {"cmd_df", "cmd_du"}
  /\ result # None
  /\ result.returncode = 0

\* C5 as stated: in cmd_df and cmd_du a stdout line of none of the known
\* line shapes raises an "unexpected output format" failure.
C5_UnknownLineRaises ==
  (/\ DfDuDone
   /\ \E i \in 1..Len(SplitLines(res.stdout)) :
        UnknownLine(call.op, SplitLines(res.stdout), i)) => outcome.kind = "raise"

\* C5, amended: in cmd_df and cmd_du, on exit code 0, a stdout line of none
\* of the known line shapes is skipped: the outcome is the one of the
\* stdout without such lines, and no failure is raised for them.
C5_UnknownLineSkipped ==
  DfDuDone =>
    LET lines == SplitLines(res.stdout)
        known == {i \in 1..Len(lines) : ~UnknownLine(call.op, lines, i)}
        kept == [k \in 1..Cardinality(known) |->
                   lines[CHOOSE i \in known :
                           Cardinality({j \in known : j <= i}) = k]]
    IN  /\ call.op = "cmd_df" => outcome = DfLoop(kept, 1, DfInit)
        /\ call.op = "cmd_du" =>
             outcome = Returned(Obj("MEGADuResult",
                         DuLoop(kept, 1, [entries |-> <<>>, size_total |-> 0,
                                          size_total_with_versions |-> 0])))
        /\ outcome.exc # "RuntimeError"

\* cmd_du read a header and a separator line among entries and a total,
\* and returned the two entries.
C5_Witness ==
  /\ DfDuDone
  /\ call.op = "cmd_du"
  /\ res.stdout = OUT_DU_FULL
  /\ UnknownLine(call.op, SplitLines(res.stdout), 1)
  /\ outcome.kind = "return"
  /\ Len(outcome.val.v.entries) = 2
  /\ outcome.val.v.size_total = 12

\* C6: cmd_export__list and cmd_find, on exit code 0, raise RuntimeError
\* when a line of the stdout (a non-blank line, for cmd_find) has none of
\* the known shapes; a list is returned only when every such line was
\* recognised, and then it has one entry for each of them, in order.
C6_ListingsAreAllOrNothing ==
  (/\ call.op \in {"cmd_export__list", "cmd_find"}
   /\ result # None
   /\ result.returncode = 0) =>
    LET lines == SplitLines(res.stdout)
        read == IF call.op = "cmd_find"
                THEN {i \in 1..Len(lines) : Strip(lines[i]) # <<>>}
                ELSE 1..Len(lines)
        bad == IF call.op = "cmd_find"
               THEN {i \in read : ~FindLineMatches(Strip(lines[i]))}
               ELSE {i \in read : ~ExportListLineMatches(lines[i])}
    IN  /\ bad # {} => outcome.kind = "raise" /\ outcome.exc = "RuntimeError"
        /\ bad = {} =>
             /\ outcome.kind = "return"
             /\ outcome.val.t = "list"
             /\ Len(outcome.val.v) = Cardinality(read)
             /\ \A k \in 1..Len(outcome.val.v) :
                  LET i == CHOOSE i \in read : Cardinality({j \in read : j <= i}) = k
                  IN  outcome.val.v[k] = IF call.op = "cmd_find"
                                         THEN FindEntry(Strip(lines[i]))
                                         ELSE ExportListEntry(lines[i])

\* cmd_export__list read a folder line, then "odd line", and raised.
C6_Witness ==
  /\ call.op = "cmd_export__list"
  /\ result # None
  /\ result.returncode = 0
  /\ res.stdout = OUT_LIST_THEN_ODD
  /\ ExportListLineMatches(SplitLines(res.stdout)[1])
  /\ outcome.kind = "raise"
  /\ outcome.exc = "RuntimeError"

\* C7: a construction with check_path raises FileNotFoundError exactly
\* when no executable is at the path, and then builds no wrapper; when the
\* probe runs, the construction succeeds whatever the probe's exit code.
\* So a wrapper built with check_path has its binary, and no operation on it
\* fails for a missing binary.
C7_CheckedWrapperHasBinary ==
  /\ (wrapper # None /\ wrapper.check_path) => wrapper.v \in Executables
  /\ (call.op = "__init__" /\ call.args.check_path /\ pc = "idle") =>
       /\ (call.args.mega_cmd_path \notin Executables) =
            (outcome.kind = "raise" /\ outcome.exc = "FileNotFoundError")
       /\ call.args.mega_cmd_path \notin Executables =>
            spawned = 0 /\ wrapper # Wrapper(call.args.mega_cmd_path, TRUE)
       /\ call.args.mega_cmd_path \in Executables =>
            /\ outcome = Returned(None)
            /\ result # None
            /\ wrapper = Wrapper(call.args.mega_cmd_path, TRUE)
  /\ (call.op \notin {"none", "__init__"} /\ wrapper.check_path) =>
       outcome.exc # "FileNotFoundError"

\* The probe of a construction with check_path exited with code 1 and the
\* wrapper was built.
C7_Witness ==
  /\ call.op = "__init__"
  /\ call.args.check_path
  /\ pc = "idle"
  /\ result # None
  /\ result.returncode = 1
  /\ outcome = Returned(None)
  /\ wrapper = Wrapper(call.args.mega_cmd_path, TRUE)

\* The last line of `lines` that begins with the shape re, or 0.
DfLast(lines, re) ==
  LET S == {i \in 1..Len(lines) : ReMatch(re, lines[i]).ok}
  IN  IF S = {} THEN 0 ELSE Max(S)

\* The text of number g of that line.
DfText(lines, re, g) ==
  LET i == DfLast(lines, re)
  IN  Group(lines[i], ReMatch(re, lines[i]), g)

\* Number g of that line as an integer, or 0 when there is no such line.
DfNum(lines, re, g) ==
  IF DfLast(lines, re) = 0 THEN 0 ELSE ParseInt(DfText(lines, re, g))

Column(line, a, b) ==
  LET last == IF b < Len(line) THEN b ELSE Len(line)
  IN  Strip([i \in 1..(IF last > a THEN last - a ELSE 0) |-> line[a + i]])

\* C10: cmd_ls cuts each listing line after the header at fixed character
\* offsets: flags [0,4), size [9,22), date [22,41), handle [41,52), name
\* from 52 on, each trimmed; is_directory holds exactly when the first flag
\* character is "d", and size is None exactly when the size column is "-".
C10_LsColumns ==
  (/\ call.op = "cmd_ls"
   /\ result # None
   /\ result.returncode = 0
   /\ outcome.kind = "return") =>
    LET lines == SplitLines(res.stdout)
        entries == outcome.val.v
    IN  /\ Len(entries) = IF lines = <<>> THEN 0 ELSE Len(lines) - 1
        /\ \A k \in 1..Len(entries) :
             LET line == lines[k + 1]
                 e == entries[k].v
             IN  /\ e.flags = Str(Column(line, 0, 4))
                 /\ e.date = Str(Column(line, 22, 41))
                 /\ e.handle = Column(line, 41, 52)
                 /\ e.name = Column(line, 52, Len(line))
                 /\ e.is_directory = (Column(line, 0, 4)[1] = "d")
                 /\ (e.size = None) = (Column(line, 9, 22) = <<"-">>)
                 /\ e.size # None => e.size = Str(Column(line, 9, 22))
        /\ res.stdout = Strip(OUT_LS) =>
             /\ entries[1].v.name = <<"m", "y", " ", "d", "i", "r">>
             /\ entries[1].v.handle = <<"H", ":", "a", "a", "a", "a", "a", "a", "a", "a">>
             /\ entries[1].v.is_directory
             /\ entries[1].v.size = None
             /\ entries[2].v.name = <<"f", ".", "t", "x", "t">>
             /\ ~entries[2].v.is_directory
             /\ entries[2].v.size = Str(<<"1", "2", " ", "K", "B">>)
             /\ entries[2].v.date = Str(<<"0", "2", "F", "e", "b", "2", "0", "2", "4", " ", "1", "1", ":", "0", "0", ":", "0", "0">>)

\* cmd_ls listed a directory "my dir" without size and two files.
C10_Witness ==
  /\ call.op = "cmd_ls"
  /\ result # None
  /\ result.returncode = 0
  /\ res.stdout = Strip(OUT_LS)
  /\ outcome.kind = "return"
  /\ Len(outcome.val.v) = 3
  /\ outcome.val.v[1].v.is_directory
  /\ outcome.val.v[1].v.size = None
  /\ outcome.val.v[3].v.size = Str(<<"0">>)

KthOf(S, k) == CHOOSE i \in S : Cardinality({j \in S : j <= i}) = k

\* C11: on exit code 0 cmd_du returns a MEGADuResult whose entries are the
\* "<path>: <size> <size_with_versions>" lines of the stdout, in order,
\* without the "Total storage used:" line, and whose two totals are the
\* numbers of the "Total storage used:" line, or 0 without such a line; on a
\* non-zero exit code it raises RuntimeError.
C11_DuReport ==
  (call.op = "cmd_du" /\ result # None) =>
    IF result.returncode # 0
    THEN outcome.kind = "raise" /\ outcome.exc = "RuntimeError"
    ELSE LET lines == SplitLines(res.stdout)
             totals == {i \in 1..Len(lines) :
                          ReMatch(RE_DU_TOTAL, Strip(lines[i])).ok}
             shaped == {i \in 1..Len(lines) :
                          ReMatch(RE_DU_ENTRY, Strip(lines[i])).ok} \ totals
             r == outcome.val.v
         IN  /\ outcome.kind = "return"
             /\ outcome.val.t = "MEGADuResult"
             /\ Len(r.entries) = Cardinality(shaped)
             /\ \A k \in 1..Len(r.entries) :
                  LET sline == Strip(lines[KthOf(shaped, k)])
                      m == ReMatch(RE_DU_ENTRY, sline)
                  IN  r.entries[k] = MEGADuEntry(Group(sline, m, 1),
                                                 ParseInt(Group(sline, m, 2)),
                                                 ParseInt(Group(sline, m, 3)))
             /\ \A k \in 1..Len(r.entries) :
                  r.entries[k].v.remote_path # <<"T", "o", "t", "a", "l", " ", "s", "t", "o", "r", "a", "g", "e", " ", "u", "s", "e", "d">>
             /\ totals = {} => r.size_total = 0 /\ r.size_total_with_versions = 0
             /\ totals # {} =>
                  LET sline == Strip(lines[Max(totals)])
                      m == ReMatch(RE_DU_TOTAL, sline)
                  IN  /\ r.size_total = ParseInt(Group(sline, m, 1))
                      /\ r.size_total_with_versions = ParseInt(Group(sline, m, 2))
             /\ res.stdout = OUT_DU_FULL =>
                  /\ r.entries = <<MEGADuEntry(<<"/", "a">>, 5, 6), MEGADuEntry(<<"/", "b", " ", "c">>, 7, 8)>>
                  /\ r.size_total = 12
                  /\ r.size_total_with_versions = 14

\* cmd_du read two entry lines and a total line, which is no entry.
C11_Witness ==
  /\ call.op = "cmd_du"
  /\ result # None
  /\ result.returncode = 0
  /\ res.stdout = OUT_DU_FULL
  /\ outcome.kind = "return"
  /\ Len(outcome.val.v.entries) = 2
  /\ outcome.val.v.size_total_with_versions = 14

\* C12: cmd_export__add never raises on what the process answers: it
\* returns None on every non-zero exit code and on exit code 0 with a stdout
\* of neither the folder shape nor the file shape, and a MEGAExportEntry
\* otherwise; the entry has size None, and is_folder and an auth_token
\* exactly when the folder shape matched.
C12_ExportAddEntryOrNone ==
  (call.op = "cmd_export__add" /\ result # None) =>
    LET folder == ReSearch(RE_EXPORT__ADD_FOLDER, res.stdout).ok
        file == ReSearch(RE_EXPORT__ADD_FILE, res.stdout).ok
        e == outcome.val.v
    IN  /\ outcome.kind = "return"
        /\ result.returncode # 0 => outcome.val = None
        /\ (result.returncode = 0 /\ ~folder /\ ~file) => outcome.val = None
        /\ (result.returncode = 0 /\ (folder \/ file)) => outcome.val # None
        /\ outcome.val # None =>
             /\ outcome.val.t = "MEGAExportEntry"
             /\ e.size = None
             /\ e.is_folder = folder
             /\ (e.auth_token # None) = folder
        /\ (result.returncode = 0 /\ res.stdout = OUT_ADD_FOLDER) =>
             outcome.val = MEGAExportEntry(<<"/", "d">>, <<"h", "t", "t", "p", "s", ":", "/", "/", "m", "/", "x">>, None, TRUE,
                                           Str(<<"t", "k">>))
        /\ (result.returncode = 0 /\ res.stdout = OUT_ADD_FILE) =>
             outcome.val = MEGAExportEntry(<<"/", "f">>, <<"h", "t", "t", "p", "s", ":", "/", "/", "m", "/", "y">>, None, FALSE,
                                           None)

\* cmd_export__add read the two lines of a folder export.
C12_Witness ==
  /\ call.op = "cmd_export__add"
  /\ result # None
  /\ result.returncode = 0
  /\ res.stdout = OUT_ADD_FOLDER
  /\ outcome.kind = "return"
  /\ outcome.val # None
  /\ outcome.val.v.is_folder
  /\ outcome.val.v.auth_token = Str(<<"t", "k">>)

\* C13: every MEGADirectoryEntry cmd_find returns has date None and flags
\* None; a directory entry has size None; and its link is set exactly when
\* its line is one of an exported file or an exported folder.
C13_FindEntryFields ==
  (/\ call.op = "cmd_find"
   /\ result # None
   /\ result.returncode = 0
   /\ outcome.kind = "return") =>
    LET lines == SplitLines(res.stdout)
        read == {i \in 1..Len(lines) : Strip(lines[i]) # <<>>}
        entries == outcome.val.v
    IN  /\ Len(entries) = Cardinality(read)
        /\ \A k \in 1..Len(entries) :
             LET sline == Strip(lines[KthOf(read, k)])
                 e == entries[k].v
             IN  /\ entries[k].t = "MEGADirectoryEntry"
                 /\ e.date = None
                 /\ e.flags = None
                 /\ e.is_directory => e.size = None
                 /\ (e.link # None) =
                      (\/ ReMatch(RE_FIND_FILE_EXPORTED, sline).ok
                       \/ ReMatch(RE_FIND_FOLDER_EXPORTED, sline).ok)
        /\ res.stdout = OUT_FIND_ALL =>
             /\ entries[1] = MEGADirectoryEntry(<<"/", "d">>, <<"H", ":", "d", "1">>, TRUE, None, None,
                                                None, None)
             /\ entries[2] = MEGADirectoryEntry(<<"/", "d", "/", "e">>, <<"H", ":", "e", "2">>, TRUE, None, None,
                                                None, Str(<<"h", "t", "t", "p", "s", ":", "/", "/", "m", "/", "e">>))
             /\ entries[3] = MEGADirectoryEntry(<<"/", "f">>, <<"H", ":", "f", "3">>, FALSE, None, None,
                                                Str(<<"1", "2", " ", "K", "B">>), None)
             /\ entries[4] = MEGADirectoryEntry(<<"/", "g">>, <<"H", ":", "g", "4">>, FALSE, None, None,
                                                Str(<<"1", " ", "B">>), Str(<<"h", "t", "t", "p", "s", ":", "/", "/", "m", "/", "g">>))

\* cmd_find listed a folder, an exported folder, a file and an exported
\* file.
C13_Witness ==
  /\ call.op = "cmd_find"
  /\ result # None
  /\ result.returncode = 0
  /\ res.stdout = OUT_FIND_ALL
  /\ outcome.kind = "return"
  /\ Len(outcome.val.v) = 4
  /\ outcome.val.v[1].v.link = None
  /\ outcome.val.v[2].v.is_directory
  /\ outcome.val.v[2].v.link # None
  /\ outcome.val.v[4].v.size # None
  /\ outcome.val.v[4].v.link # None

\* C14: cmd_get returns True exactly on exit code 0 with "Download finished"
\* in the stdout, and False exactly on exit code 0 without it; on every
\* non-zero exit code it raises RuntimeError: remote path not found on 53,
\* local path error on 54, invalid download folder on 55, a general failure
\* on any other.
C14_GetOutcome ==
  (call.op = "cmd_get" /\ result # None) =>
    LET finished == Contains(res.stdout, <<"D", "o", "w", "n", "l", "o", "a", "d", " ", "f", "i", "n", "i", "s", "h", "e", "d">>)
    IN  /\ (outcome = Returned(Bool(TRUE))) = (result.returncode = 0 /\ finished)
        /\ (outcome = Returned(Bool(FALSE))) = (result.returncode = 0 /\ ~finished)
        /\ (outcome.kind = "raise") = (result.returncode # 0)
        /\ outcome.kind = "raise" => outcome.exc = "RuntimeError"
        /\ result.returncode = 53 => outcome.msg = "Remote path not found"
        /\ result.returncode = 54 => outcome.msg = "Local path error"
        /\ result.returncode = 55 => outcome.msg = "Invalid download folder"
        /\ result.returncode \notin {0, 53, 54, 55} =>
             outcome.msg = "Failed to get file/folder"

\* cmd_get's process exited with code 1, a code without a branch of its
\* own, and cmd_get raised.
C14_Witness ==
  /\ call.op = "cmd_get"
  /\ result # None
  /\ result.returncode = 1
  /\ outcome.kind = "raise"
  /\ outcome.exc = "RuntimeError"

\* cmd_login has returned or raised on a wrapper whose binary exists; and
\* the two login methods of its arguments: user login when one of email,
\* password and auth_code is a non-empty string, session login when session
\* is not None.
LoginDone ==
  /\ call.op = "cmd_login"
  /\ pc = "idle"
  /\ wrapper.v \in Executables

LoginUser == Truthy(call.args.email) \/ Truthy(call.args.password)
               \/ Truthy(call.args.auth_code)

LoginSession == call.args.session # None

\* C15 as stated: with both login methods or neither cmd_login raises
\* ValueError without running a process; with exactly one it runs one login
\* process and returns True on exit code 0 and False on any other.
C15_OneMethodRunsLogin ==
  LoginDone =>
    IF LoginUser = LoginSession
    THEN outcome.kind = "raise" /\ outcome.exc = "ValueError" /\ spawned = 0
    ELSE /\ spawned = 1
         /\ result # None
         /\ outcome = Returned(Bool(result.returncode = 0))

\* C15, amended: with both login methods or neither cmd_login raises
\* ValueError without running a process; with user login and email or
\* password None it fails with AssertionError without running a process;
\* otherwise it runs one login process, "login <email> <password>
\* [--auth-code=<code>]" or "login <session>", and returns True on exit code
\* 0 and False on any other.
C15_LoginMethods ==
  LoginDone =>
    IF LoginUser = LoginSession
    THEN outcome.kind = "raise" /\ outcome.exc = "ValueError" /\ spawned = 0
    ELSE IF LoginUser /\ (call.args.email = None \/ call.args.password = None)
    THEN outcome.kind = "raise" /\ outcome.exc = "AssertionError" /\ spawned = 0
    ELSE /\ spawned = 1
         /\ result # None
         /\ outcome = Returned(Bool(result.returncode = 0))
         /\ Tail(result.args) =
              IF LoginSession THEN <<<<"l", "o", "g", "i", "n">>, call.args.session.v>>
              ELSE <<<<"l", "o", "g", "i", "n">>, call.args.email.v, call.args.password.v>>
                   \o (IF Truthy(call.args.auth_code)
                       THEN <<<<"-", "-", "a", "u", "t", "h", "-", "c", "o", "d", "e", "=">> \o call.args.auth_code.v>>
                       ELSE <<>>)

\* cmd_login was given a password and no email, and failed before running
\* anything.
C15_Witness ==
  /\ LoginDone
  /\ call.args.email = None
  /\ Truthy(call.args.password)
  /\ ~LoginSession
  /\ outcome.exc = "AssertionError"
  /\ spawned = 0
  /\ result = None

\* The last line of a text; the empty text has none.
LastLine(t) == IF t = <<>> THEN <<>> ELSE SplitLines(t)[Len(SplitLines(t))]

\* The places of a line where "session id: " stands with text after it.
SessionIdAt(line) ==
  {p \in 1..Len(line) : HasPrefixAt(line, p, <<"s", "e", "s", "s", "i", "o", "n", " ", "i", "d", ":", " ">>)
                          /\ p + 12 <= Len(line)}

\* C16: cmd_logout never raises once its process has run: it returns the
\* pair (success, session) where success is whether the exit code is 0, and
\* session is the text after "session id: " on the last line of stdout when
\* keep_session is set, the exit code is 0 and the last line holds such a
\* text, and None in every other case.
C16_LogoutPair ==
  (call.op = "cmd_logout" /\ pc = "idle" /\ wrapper.v \in Executables) =>
    /\ res # None
    /\ LET last == LastLine(res.stdout)
           session ==
             IF call.args.keep_session /\ res.return_code = 0
                  /\ SessionIdAt(last) # {}
             THEN Str(SliceFrom(last, Min(SessionIdAt(last)) + 11))
             ELSE None
       IN  outcome = Returned(Tuple(<<Bool(res.return_code = 0), session>>))

\* A logout that kept the session and read it from the last line of stdout.
C16_Witness ==
  /\ call.op = "cmd_logout"
  /\ pc = "idle"
  /\ res # None
  /\ call.args.keep_session
  /\ res.return_code = 0
  /\ res.stdout = OUT_LOGOUT_SESSION
  /\ outcome = Returned(Tuple(<<Bool(TRUE), Str(<<"a", "b", "c">>)>>))

\* p is the local path raw as cmd_put passes it on: raw without its leading
\* blanks and newlines and without its trailing "/"s.
IsCleanLocal(p, raw) ==
  /\ p # <<>> => p[1] \notin {" ", NL} /\ p[Len(p)] # "/"
  /\ \E k \in 0..(Len(raw) - Len(p)) :
       /\ \A i \in 1..Len(p) : raw[k + i] = p[i]
       /\ \A i \in 1..k : raw[i] \in {" ", NL}
       /\ \A i \in (k + Len(p) + 1)..Len(raw) : raw[i] = "/"

\* C17: cmd_put given a list of local paths and no remote path fails before
\* any process is run.  Otherwise its command line is the binary, "put",
\* "-c", the local paths in the given order, each without its trailing "/",
\* and last the remote path when there is one; with more than one local
\* path the remote path ends with "/", with one it is passed as cleaned.
C17_PutCommandLine ==
  (call.op = "cmd_put" /\ pc = "idle" /\ wrapper.v \in Executables) =>
    LET a == call.args
        locals == IF a.local_path.t = "str" THEN <<a.local_path.v>>
                  ELSE a.local_path.v
        n == Len(locals)
    IN  IF a.local_path.t # "str" /\ a.remote_path = None
        THEN /\ outcome.kind = "raise"
             /\ outcome.exc = "AssertionError"
             /\ spawned = 0
             /\ result = None
        ELSE /\ spawned = 1
             /\ result # None
             /\ LET argv == result.args
                IN  /\ Len(argv) = 3 + n + (IF a.remote_path = None THEN 0 ELSE 1)
                    /\ SubSeq(argv, 1, 3) = <<wrapper.v, <<"p", "u", "t">>, <<"-", "c">>>>
                    /\ \A i \in 1..n : IsCleanLocal(argv[3 + i], locals[i])
                    /\ a.remote_path # None =>
                         LET base == clean_remote_path(a.remote_path.v, FALSE)
                             remote == argv[Len(argv)]
                         IN  /\ n > 1 => EndsWith(remote, SLASH)
                             /\ remote \in {base, base \o SLASH}
                             /\ (n = 1 \/ EndsWith(base, SLASH)) => remote = base

\* Two local paths were put to a remote path given without a final "/".
C17_Witness ==
  /\ call.op = "cmd_put"
  /\ pc = "idle"
  /\ result # None
  /\ call.args.local_path.t # "str"
  /\ call.args.remote_path = Str(<<"/", "d">>)
  /\ Tail(result.args) = <<<<"p", "u", "t">>, <<"-", "c">>, <<"l">>, <<"m">>, <<"/", "d", "/">>>>

\* cmd_session has returned or raised after its process ran.
SessionDone ==
  /\ call.op = "cmd_session"
  /\ pc = "idle"
  /\ res # None

EmailLines(t) ==
  {i \in 1..Len(SplitLines(t)) :
     /\ StartsWith(SplitLines(t)[i], <<"A", "c", "c", "o", "u", "n", "t", " ", "e", "-", "m", "a", "i", "l", ":", " ">>)
     /\ Len(SplitLines(t)[i]) > 16}

\* C19 as stated: cmd_whoami returns None for every non-zero exit code, and
\* on exit code 0 with a line "Account e-mail: <e>" in stdout it returns e,
\* whatever other lines stand before or after that line.
C19_EmailLineAnywhere ==
  (call.op = "cmd_whoami" /\ pc = "idle" /\ res # None) =>
    /\ res.return_code # 0 => outcome = Returned(None)
    /\ (res.return_code = 0 /\ EmailLines(res.stdout) # {}) =>
         outcome = Returned(Str(SliceFrom(
                      SplitLines(res.stdout)[Min(EmailLines(res.stdout))], 16)))

\* cmd_lcd has returned or raised after its process ran.
LcdDone ==
  /\ call.op = "cmd_lcd"
  /\ pc = "idle"
  /\ res # None

ConfigurationFailure ==
  /\ outcome.exc = "FileNotFoundError"
  /\ PathOfCall \notin Executables
  /\ spawned = 0
  /\ res = None

\* Domain failure: the process exited with a non-zero exit code.
DomainFailure ==
  /\ res # None
  /\ res.return_code # 0
  /\ outcome.exc \in {"RuntimeError", "NotImplementedError"}

\* Format failure: the process exited with code 0 and the method could not
\* read its output; cmd_df lets the ValueError of float() through and
\* cmd_ls the IndexError of flags[0].
FormatFailure ==
  /\ res # None
  /\ res.return_code = 0
  /\ \/ outcome.exc \in {"RuntimeError", "NotImplementedError"}
     \/ outcome.exc = "ValueError" /\ call.op = "cmd_df"
     \/ outcome.exc = "IndexError" /\ call.op = "cmd_ls"

\* Argument failure: the method refused its arguments before running
\* anything.
ArgumentFailure ==
  /\ call.op \in {"cmd_cat", "cmd_du", "cmd_export", "cmd_login", "cmd_put"}
  /\ outcome.exc \in {"ValueError", "AssertionError"}
  /\ spawned = 0
  /\ result = None
  /\ res = None

ExportSub(a) ==
  CASE a.action = "add" -> "cmd_export__add"
    [] a.action = "delete" -> "cmd_export__delete"
    [] a.action = "list" -> "cmd_export__list"

ExportSubArgs(a) ==
  CASE a.action = "add" -> [remote_path |-> a.remote_path.v,
                            writeable |-> a.writeable,
                            password |-> a.password]
    [] a.action = "delete" -> [remote_path |-> a.remote_path.v]
    [] a.action = "list" -> [remote_path |-> a.remote_path]

\* C22: cmd_export with an action other than 'add', 'delete' and 'list'
\* raises ValueError without running a process; 'delete' and 'list' with
\* writeable or a password, and 'add' and 'delete' without a remote path,
\* are refused (AssertionError) before any process is run; in every other
\* case it runs the one process of cmd_export__add, cmd_export__delete or
\* cmd_export__list called with the same arguments, and its outcome is the
\* one that operation gives for the same result of the process.
C22_ExportIsItsSubOperation ==
  (call.op = "cmd_export" /\ pc = "idle" /\ wrapper.v \in Executables) =>
    LET a == call.args
        refused ==
          \/ a.action \in {"delete", "list"} /\ (a.writeable \/ a.password # None)
          \/ a.action \in {"add", "delete"} /\ a.remote_path = None
    IN  IF a.action \notin {"add", "delete", "list"}
        THEN /\ outcome.kind = "raise"
             /\ outcome.exc = "ValueError"
             /\ spawned = 0
             /\ result = None
        ELSE IF refused
        THEN /\ outcome.kind = "raise"
             /\ outcome.exc = "AssertionError"
             /\ spawned = 0
             /\ result = None
        ELSE /\ spawned = 1
             /\ result # None
             /\ ~CommandOf(ExportSub(a), ExportSubArgs(a)).early
             /\ result.args =
                  <<wrapper.v>> \o CommandOf(ExportSub(a), ExportSubArgs(a)).command
             /\ outcome = Decode(ExportSub(a), ExportSubArgs(a), res)

\* cmd_export added a password-protected export and returned its entry.
C22_Witness ==
  /\ call.op = "cmd_export"
  /\ pc = "idle"
  /\ call.args.action = "add"
  /\ call.args.password # None
  /\ ~call.args.writeable
  /\ result # None
  /\ Tail(result.args) = <<<<"e", "x", "p", "o", "r", "t">>, <<"-", "f">>, <<"-", "a">>, <<"a">>, <<"-", "-", "p", "a", "s", "s", "w", "o", "r", "d", "=", "p", "w">>>>
  /\ result.returncode = 0
  /\ outcome.kind = "return"
  /\ outcome.val # None
  /\ outcome = cmd_export__add(ExportSubArgs(call.args), res)

\* cmd_cd has returned or raised after its process ran.
CdDone ==
  /\ call.op = "cmd_cd"
  /\ pc = "idle"
  /\ res # None

\* C23: cmd_cd returns True when the exit code is 0 and False when it is
\* 53, and raises RuntimeError for every other exit code, whatever the
\* process wrote to stdout and stderr.
C23_CdExitCodes ==
  CdDone =>
    outcome = CASE res.return_code = 0 -> Returned(Bool(TRUE))
                [] res.return_code = 53 -> Returned(Bool(FALSE))
                [] OTHER -> Raised("RuntimeError", "Failed to change directory")

\* cd exited with code 53 after writing text that is no known output, and
\* cmd_cd returned False.
C23_Witness ==
  /\ CdDone
  /\ res.return_code = 53
  /\ res.stdout = OUT_ODD
  /\ outcome = Returned(Bool(FALSE))

=============================================================================
